---- MODULE Spec2Model ----
(***************************************************************************)
(* State-machine model of the DVI bridge: the two loadable Flask servers   *)
(* (dvi_server_final.py = "final", dvi_bridge.py = "bridge"), their        *)
(* request handlers and the vendor-API wrappers they call.  A handler run  *)
(* is a sequence of steps, one per vendor call; the vendor's answer to     *)
(* each call is a nondeterministic input.  JUNK/dvi_server.py is left out  *)
(* as a server: it imports a name dvi_checklist.py does not define and     *)
(* registers two view functions called dvi_pma_complete, so the module     *)
(* cannot be imported and serves no request.                               *)
(***************************************************************************)
EXTENDS Integers, Sequences, FiniteSets, TLC

\* ------------------------------------------------------------------ bounds
\* images (files, paths, base64 payloads together) one request may carry
MaxImages == 2
\* request slots: requests that one run of the model handles
MaxReqs == 2

Reqs == 1..MaxReqs

\* ------------------------------------------------------------ input values
Variants == {"final", "bridge"}
StatusEndpoints == {"start", "iso_complete", "pma_complete", "qc_complete"}
\* request body as the JSON parser sees it
Bodies == {"object", "array", "invalid"}
\* the ro_number field: missing, the empty string, or a number
RoValues == {"absent", "", "12345"}
\* a JSON/form value of move_to_start / move_to_complete
JsonFlagValues == {"omitted", "json_true", "json_false", "str_false"}
FormFlagValues == {"omitted", "str_true", "str_false"}
CommentValues == {"", "Brake pads worn"}
\* the optional condition field final's inspection handler reads
ConditionValues == {"omitted", "Passed"}
\* multipart file parts: a named file, a part without filename, a file whose save() raises
FileKinds == {"file", "file_noname", "file_saveerr"}
\* entries of image_paths: a file staged earlier by /dvi/upload_image, a path
\* that names no file, the empty string
PathKinds == {"staged", "missing", "empty"}
\* entries of images_base64: decodable data, data with incorrect padding, empty data
B64Kinds == {"b64_ok", "b64_badpad", "b64_empty"}

\* ------------------------------------------------------------------ paths
NoPath == [pfx |-> "", id |-> 0]
MissingPath == [pfx |-> "other", id |-> 0]
\* the file an earlier /dvi/upload_image left behind (one per server variant)
StagedPath(variant) == [pfx |-> IF variant = "final" THEN "tmp_" ELSE "/tmp/", id |-> 0]
PathOf(variant, kind) ==
  IF kind = "staged" THEN StagedPath(variant)
  ELSE IF kind = "missing" THEN MissingPath ELSE NoPath

\* all sequences over S of length at most n
RECURSIVE SeqUpTo(_, _)
SeqUpTo(S, n) ==
  IF n = 0 THEN {<<>>}
  ELSE LET shorter == SeqUpTo(S, n - 1)
       IN  shorter \cup {Append(s, x) : s \in {t \in shorter : Len(t) = n - 1}, x \in S}

\* ------------------------------------------------------- flag conversions
\* str(v).lower() of a flag value (None cannot occur: the default is "true")
StrLower(v) ==
  CASE v = "omitted" -> "true"
    [] v = "json_true" -> "true"
    [] v = "json_false" -> "false"
    [] v = "str_true" -> "true"
    [] v = "str_false" -> "false"

\* dvi_server_final: str(data.get(name, "true")).lower() == "true"
FinalFlag(v) == StrLower(v) = "true"

\* dvi_bridge._form_bool(val, default)
FormBool(v, default) ==
  IF v = "omitted" THEN default
  ELSE StrLower(v) \in {"1", "true", "yes", "y", "on"}

\* dvi_bridge JSON branch: bool(data.get(name, True)); a non-empty string is truthy
JsonBool(v) ==
  CASE v = "omitted" -> TRUE
    [] v = "json_true" -> TRUE
    [] v = "json_false" -> FALSE
    [] OTHER -> TRUE

\* a variant in which pma_complete sends "4" (sensitivity of C9)
StatusCodeAlt(endpoint) ==
  CASE endpoint = "start" -> "3"
    [] endpoint = "iso_complete" -> "4"
    [] endpoint = "pma_complete" -> "4"
    [] endpoint = "qc_complete" -> "8"
\* status code each status-only endpoint sends
StatusCode(endpoint) ==
  CASE endpoint = "start" -> "3"
    [] endpoint = "iso_complete" -> "4"
    [] endpoint = "pma_complete" -> "5"
    [] endpoint = "qc_complete" -> "8"

\* ------------------------------------------------------------------ state
VARIABLES
  config,   \* config.py: ISO_LABOR_ID / ISO_ITEM_ID, fixed at process start
  req,      \* req[r]: the request slot r received ("none" before it arrives)
  h,        \* h[r]: the handler's locals, its vendor-call log and its response
  fs,       \* files that exist on the server's disk
  ctr,      \* counters: tokens the vendor issued, uuid4 values drawn, blobs stored
  ev        \* one call of a library function: its name, its argument, its result

vars == <<config, req, h, fs, ctr, ev>>

\* no library function has been called
NoEval == [fn |-> "none"]

NoReq == [variant |-> "none", endpoint |-> "none"]

NoResp == [kind |-> "none", http |-> 0, ok |-> FALSE, new_status |-> "",
           error |-> "", has_upload_errors |-> FALSE]

IdleHandler ==
  [pc |-> "idle", token |-> 0, labor_id |-> "", item_id |-> "", rowid |-> "",
   cand |-> 0, image_paths |-> <<>>, k |-> 0, blob |-> 0, blobs |-> <<>>,
   upload_errors |-> <<>>, status_changes |-> {}, cleanup |-> <<>>,
   created |-> {}, move_to_start |-> FALSE, move_to_complete |-> FALSE,
   calls |-> <<>>, resp |-> NoResp,
   ro_detail |-> [Requests |-> <<"None">>, LaborList |-> <<>>, CheckLists |-> <<>>]]

\* a request with every field at its default; each endpoint reads only some
BlankReq(variant, endpoint) ==
  [variant |-> variant, endpoint |-> endpoint, ctype |-> "json", body |-> "object",
   ro |-> "absent", comments |-> "", condition |-> "omitted", files |-> <<>>, paths |-> <<>>, b64s |-> <<>>,
   move_to_start |-> "omitted", move_to_complete |-> "omitted", rowid |-> "absent",
   upload |-> "none"]

Init ==
  /\ config \in [ISO_LABOR_ID : {"None", "e96a6a31"}, ISO_ITEM_ID : {"None", "7dfec4da"}]
  /\ req = [r \in Reqs |-> NoReq]
  /\ h = [r \in Reqs |-> IdleHandler]
  /\ fs = {StagedPath(v) : v \in Variants}
  /\ ctr = [tokens |-> 0, uuids |-> 0, blobs |-> 0]
  /\ ev = NoEval

\* ---------------------------------------------------------------- responses
JsonResp(http, ok, err) ==
  [kind |-> "json", http |-> http, ok |-> ok, new_status |-> "",
   error |-> err, has_upload_errors |-> FALSE]

\* an exception left the view function: Flask answers, not the handler
Escaped(err) ==
  [kind |-> "escaped", http |-> 500, ok |-> FALSE, new_status |-> "",
   error |-> err, has_upload_errors |-> FALSE]

\* a variant whose finally block sweeps every tmp_ file of the working
\* directory (sensitivity of C11)
FinalCleanupSweep(hr, files) == {f \in files : f.pfx # "tmp_"}
\* the finally block of dvi_iso_inspection: the files it removes
FinalCleanup(hr, files) ==
  files \ {hr.cleanup[i] : i \in {j \in 1..Len(hr.cleanup) : hr.cleanup[j].pfx = "tmp_"}}

\* a variant without the finally block of the bridge (sensitivity of C28)
BridgeCleanupNone(hr, files) == files
\* bridge: the finally block removes the multipart temp files under /tmp/
BridgeCleanup(hr, files) ==
  files \ {hr.cleanup[i] : i \in {j \in 1..Len(hr.cleanup) : hr.cleanup[j].pfx = "/tmp/"}}

\* files left once the handler's try statement is left (only the inspection
\* handlers have a finally block)
AfterTry(rq, hr, files) ==
  IF rq.endpoint # "iso_inspection" THEN files
  ELSE IF rq.variant = "final" THEN FinalCleanup(hr, files)
  ELSE BridgeCleanup(hr, files)

\* one step of slot r: the request, the handler's locals, the disk, the counters
Commit(r, rq, hr, files, ctrn) ==
  /\ req' = [req EXCEPT ![r] = rq]
  /\ h' = [h EXCEPT ![r] = hr]
  /\ fs' = files
  /\ ctr' = ctrn
  /\ UNCHANGED <<config, ev>>

Done(hr, resp) == [hr EXCEPT !.pc = "done", !.resp = resp]

\* the handler returns resp from inside its try statement (finally runs)
Return(r, rq, hr, resp, files, ctrn) ==
  Commit(r, rq, Done(hr, resp), AfterTry(rq, hr, files), ctrn)

\* an exception raised inside the try statement: except Exception -> 500
Raise(r, rq, hr, err, files, ctrn) ==
  Return(r, rq, hr, JsonResp(500, FALSE, err), files, ctrn)

\* a return or an exception outside any try statement (no finally runs)
Leave(r, rq, hr, resp, files, ctrn) ==
  Commit(r, rq, Done(hr, resp), files, ctrn)

\* ------------------------------------------------ status-only endpoints
\* dvi_start / dvi_iso_complete / dvi_pma_complete / dvi_qc_complete up to
\* the login call.  final: get_json(force=True, silent=True) or {} and
\* data.get outside the try; bridge: get_json(force=True) and data[...]
\* (data.get in qc_complete) inside it.
ReceiveStatus(r) ==
  /\ req[r] = NoReq
  /\ \E variant \in Variants, endpoint \in StatusEndpoints, body \in Bodies, ro \in RoValues :
       /\ body # "object" => ro = "absent"
       /\ LET rq == [BlankReq(variant, endpoint) EXCEPT !.body = body, !.ro = ro]
              hr == IdleHandler
              missing == IF endpoint = "start" /\ variant = "final"
                         THEN "Missing required field 'ro_number'" ELSE "Missing ro_number"
          IN  IF variant = "final"
              THEN IF body = "array"
                   THEN Leave(r, rq, hr, Escaped("AttributeError"), fs, ctr)
                   ELSE IF body = "invalid" \/ ro \in {"absent", ""}
                   THEN Leave(r, rq, hr, JsonResp(400, FALSE, missing), fs, ctr)
                   ELSE Commit(r, rq, [hr EXCEPT !.pc = "login"], fs, ctr)
              ELSE IF body = "invalid"
                   THEN Raise(r, rq, hr, "BadRequest", fs, ctr)
                   ELSE IF body = "array"
                   THEN Raise(r, rq, hr, IF endpoint = "qc_complete" THEN "AttributeError"
                                        ELSE "TypeError", fs, ctr)
                   ELSE IF endpoint = "qc_complete"
                   THEN IF ro \in {"absent", ""}
                        THEN Return(r, rq, hr, JsonResp(400, FALSE, missing), fs, ctr)
                        ELSE Commit(r, rq, [hr EXCEPT !.pc = "login"], fs, ctr)
                   ELSE IF ro = "absent"
                        THEN Raise(r, rq, hr, "KeyError 'ro_number'", fs, ctr)
                        ELSE Commit(r, rq, [hr EXCEPT !.pc = "login"], fs, ctr)

\* GET /health (dvi_server_final only)
ReceiveHealth(r) ==
  /\ req[r] = NoReq
  /\ Leave(r, BlankReq("final", "health"), IdleHandler, JsonResp(200, TRUE, ""), fs, ctr)

\* POST /dvi/upload_image: stage one file and answer with its temp path
ReceiveUpload(r) ==
  /\ req[r] = NoReq
  /\ \E variant \in Variants, upload \in {"nofile", "file_noname", "file", "file_saveerr"} :
       LET rq == [BlankReq(variant, "upload_image") EXCEPT !.upload = upload]
           p == [pfx |-> IF variant = "final" THEN "tmp_" ELSE "/tmp/", id |-> ctr.uuids + 1]
           ctrn == [ctr EXCEPT !.uuids = @ + 1]
       IN  IF upload = "nofile"
           THEN Return(r, rq, IdleHandler, JsonResp(400, FALSE, "No file part"), fs, ctr)
           ELSE IF upload = "file_noname"
           THEN Return(r, rq, IdleHandler, JsonResp(400, FALSE, "Empty filename"), fs, ctr)
           ELSE IF upload = "file_saveerr"
           THEN Raise(r, rq, IdleHandler, "OSError", fs, ctrn)
           ELSE Return(r, rq, [IdleHandler EXCEPT !.created = {p}],
                       JsonResp(200, TRUE, ""), fs \cup {p}, ctrn)

\* --------------------------------------------------------- handler stages
\* variants of the step order (sensitivity of C1 and C2): the start status
\* before the checklist write; the images after the checklist write
StagesStartFirst(rq) ==
  IF rq.endpoint \in StatusEndpoints THEN <<"status", "respond">>
  ELSE IF rq.variant = "final"
  THEN <<"resolve", "upload", "start", "checklist", "complete", "respond">>
  ELSE <<"rowid", "start", "form_get", "upload", "complete", "respond">>
StagesImagesLate(rq) ==
  IF rq.endpoint \in StatusEndpoints THEN <<"status", "respond">>
  ELSE IF rq.variant = "final"
  THEN <<"resolve", "checklist", "upload", "start", "complete", "respond">>
  ELSE <<"rowid", "start", "form_get", "upload", "complete", "respond">>
\* the vendor-calling steps of a handler, in program order; a step that the
\* request's parameters switch off is skipped
Stages(rq) ==
  IF rq.endpoint \in StatusEndpoints THEN <<"status", "respond">>
  ELSE IF rq.variant = "final"
  THEN <<"resolve", "upload", "checklist", "start", "complete", "respond">>
  ELSE <<"rowid", "start", "form_get", "upload", "complete", "respond">>

\* a variant that takes the static path when either identifier is set
\* (sensitivity of C26)
StaticIdsEither == config.ISO_LABOR_ID # "None" \/ config.ISO_ITEM_ID # "None"
\* if static_labor and static_item: both identifiers of config.py are set
StaticIds == config.ISO_LABOR_ID # "None" /\ config.ISO_ITEM_ID # "None"

\* a variant that skips a status change some request already made for the
\* same RO (sensitivity of C8)
ApplicableOnce(rq, hr, s) ==
  CASE s = "resolve" -> ~StaticIds
    [] s = "rowid" -> hr.rowid = ""
    [] s = "upload" -> hr.k < Len(hr.image_paths)
    [] s = "start" -> hr.move_to_start
    [] s = "complete" -> hr.move_to_complete
    [] s = "status" ->
         ~\E q \in Reqs : \E i \in 1..Len(h[q].calls) :
            /\ h[q].calls[i].op = "ChangeStatus" /\ h[q].calls[i].ok
            /\ h[q].calls[i].ro = rq.ro /\ h[q].calls[i].arg = StatusCode(rq.endpoint)
    [] OTHER -> TRUE
\* whether step s runs for this request
Applicable(rq, hr, s) ==
  CASE s = "resolve" -> ~StaticIds
    [] s = "rowid" -> hr.rowid = ""
    [] s = "upload" -> hr.k < Len(hr.image_paths)
    [] s = "start" -> hr.move_to_start
    [] s = "complete" -> hr.move_to_complete
    [] OTHER -> TRUE

StageIndex(rq, s) == CHOOSE i \in 1..Len(Stages(rq)) : Stages(rq)[i] = s

RECURSIVE FirstStage(_, _, _)
FirstStage(rq, hr, i) ==
  LET s == Stages(rq)[i]
  IN  IF s = "respond" \/ Applicable(rq, hr, s) THEN s ELSE FirstStage(rq, hr, i + 1)

\* literal new_status of each status-only handler's success response
ReportedStatus(endpoint) ==
  CASE endpoint = "start" -> "3"
    [] endpoint = "iso_complete" -> "4"
    [] endpoint = "pma_complete" -> "5"
    [] endpoint = "qc_complete" -> "8"

\* the success response the handler builds after its last step
OkResp(rq) ==
  IF rq.endpoint \in StatusEndpoints
  THEN [JsonResp(200, TRUE, "") EXCEPT !.new_status = ReportedStatus(rq.endpoint)]
  ELSE [JsonResp(200, TRUE, "") EXCEPT !.has_upload_errors = (rq.variant = "final")]

\* control moves on to the first applicable stage from index i on
Goto(r, rq, hr, i, files, ctrn) ==
  LET s == FirstStage(rq, hr, i)
  IN  IF s = "respond"
      THEN Return(r, rq, hr, OkResp(rq), files, ctrn)
      ELSE Commit(r, rq, [hr EXCEPT !.pc = s], files, ctrn)

After(r, hr, s, ctrn) == Goto(r, req[r], hr, StageIndex(req[r], s) + 1, fs, ctrn)

\* a variant with one module-level token, the last one issued (sensitivity
\* of C7)
TokenShared(hr) == ctr.tokens
\* the token a handler passes to a vendor wrapper: its own local `token`
TokenOf(hr) == hr.token

\* one vendor call as the vendor sees it; img is the position in the image
\* list of the image an upload or attach call is made for (0: no image)
Call(op, tok, ro, arg, blob, ok) ==
  [op |-> op, tok |-> tok, ro |-> ro, arg |-> arg, blob |-> blob, ok |-> ok, img |-> 0]

Logged(hr, call) == [hr EXCEPT !.calls = Append(@, call)]

\* ------------------------------------------------------------ vendor steps
\* a variant of dvi_login that returns without a token instead of raising
\* (sensitivity of C19)
LoginFailedNever(out) == FALSE
\* dvi_login raises: raise_for_status() on an error status, data["Token"]
\* on a body without the field
LoginFailed(out) == out \in {"http_error", "no_token"}

\* token = dvi_login(): one POST /login; raise_for_status, then data["Token"]
Login(r) ==
  /\ h[r].pc = "login"
  /\ \E out \in {"ok", "http_error", "no_token"} :
       LET tok == IF out = "ok" THEN ctr.tokens + 1 ELSE 0
           hr == Logged(h[r], Call("login", tok, "", "", 0, out = "ok"))
           ids == IF req[r].endpoint = "iso_inspection" /\ req[r].variant = "final" /\ StaticIds
                  THEN [hr EXCEPT !.token = tok, !.labor_id = config.ISO_LABOR_ID,
                                  !.item_id = config.ISO_ITEM_ID]
                  ELSE [hr EXCEPT !.token = tok]
       IN  IF ~LoginFailed(out)
           THEN Goto(r, req[r], ids, 1, fs,
                     IF out = "ok" THEN [ctr EXCEPT !.tokens = @ + 1] ELSE ctr)
           ELSE Raise(r, req[r], hr, IF out = "no_token" THEN "KeyError 'Token'"
                                     ELSE "HTTPError login", fs, ctr)

\* a variant that goes on to the next step after a failed status change
\* (sensitivity of C27)
ChangeStatusLenient(r, stage, code, key) ==
  /\ h[r].pc = stage
  /\ \E ok \in BOOLEAN :
       LET hr == Logged(h[r], Call("ChangeStatus", TokenOf(h[r]), req[r].ro, code, 0, ok))
       IN  After(r, IF ok THEN [hr EXCEPT !.status_changes = @ \cup {key}] ELSE hr, stage, ctr)
\* change_status(token, ro_number, code): one POST /ChangeStatus
ChangeStatus(r, stage, code, key) ==
  /\ h[r].pc = stage
  /\ \E ok \in BOOLEAN :
       LET hr == Logged(h[r], Call("ChangeStatus", TokenOf(h[r]), req[r].ro, code, 0, ok))
       IN  IF ok
           THEN After(r, [hr EXCEPT !.status_changes = @ \cup {key}], stage, ctr)
           ELSE Raise(r, req[r], hr, "HTTPError ChangeStatus", fs, ctr)

StatusOnly(r) == ChangeStatus(r, "status", StatusCode(req[r].endpoint), "status")

StatusStart(r) == ChangeStatus(r, "start", "3", "start")

StatusComplete(r) == ChangeStatus(r, "complete", "4", "complete")

\* ------------------------------------------------------ inspection: staging
\* the staging loops' running state: image_paths, temp files created, the
\* disk, the uuid counter, and whether an exception was raised
StageStart == [paths |-> <<>>, temp |-> <<>>, created |-> {}, files |-> fs,
               uuids |-> ctr.uuids, raised |-> FALSE]

\* multipart parts: skip a part without filename; f.save() of a named part
\* creates the temp file or raises
RECURSIVE StageFiles(_, _, _)
StageFiles(pfx, parts, acc) ==
  IF parts = <<>> \/ acc.raised THEN acc
  ELSE LET p == [pfx |-> pfx, id |-> acc.uuids + 1]
       IN  CASE Head(parts) = "file_noname" -> StageFiles(pfx, Tail(parts), acc)
             [] Head(parts) = "file_saveerr" ->
                  [acc EXCEPT !.raised = TRUE, !.uuids = @ + 1]
             [] OTHER ->
                  StageFiles(pfx, Tail(parts),
                             [acc EXCEPT !.paths = Append(@, p), !.temp = Append(@, p),
                                         !.created = @ \cup {p}, !.files = @ \cup {p},
                                         !.uuids = @ + 1])

\* image_paths.extend(paths): caller-supplied paths are taken as they are
StagePaths(variant, paths, acc) ==
  [acc EXCEPT !.paths = @ \o [i \in 1..Len(paths) |-> PathOf(variant, paths[i])]]

\* images_base64 (final): empty data is skipped; open(tmp_path, "wb") creates
\* the file before b64decode runs, so data that does not decode leaves the
\* file behind, and the except clause drops it from image_paths
RECURSIVE StageB64(_, _)
StageB64(items, acc) ==
  IF items = <<>> THEN acc
  ELSE LET p == [pfx |-> "tmp_", id |-> acc.uuids + 1]
       IN  CASE Head(items) = "b64_empty" -> StageB64(Tail(items), acc)
             [] Head(items) = "b64_badpad" ->
                  StageB64(Tail(items),
                           [acc EXCEPT !.created = @ \cup {p}, !.files = @ \cup {p},
                                       !.uuids = @ + 1])
             [] OTHER ->
                  StageB64(Tail(items),
                           [acc EXCEPT !.paths = Append(@, p), !.temp = Append(@, p),
                                       !.created = @ \cup {p}, !.files = @ \cup {p},
                                       !.uuids = @ + 1])

\* POST /dvi/iso_inspection up to the login call: parsing, the ro_number
\* check and staging.  final checks ro_number first and stages outside any
\* try statement; bridge stages multipart files first, inside its try.
\* n bounds the images of the request; plain restricts the request to the
\* plain JSON request (ro_number and comments given, flags omitted).
ReceiveInspection(r, n, plain) ==
  /\ req[r] = NoReq
  /\ \E variant \in Variants :
     \E ctype \in IF plain THEN {"json"} ELSE {"json", "multipart"} :
     \E body \in IF ctype = "json" /\ ~plain THEN Bodies ELSE {"object"} :
     \E ro \in IF body = "object" /\ ~plain THEN RoValues
               ELSE IF plain THEN {"12345"} ELSE {"absent"} :
     \E files \in IF ctype = "multipart" /\ (variant = "bridge" \/ ro = "12345")
                  THEN SeqUpTo(FileKinds, n) ELSE {<<>>} :
     \E paths \in IF ctype = "json" /\ ro = "12345"
                  THEN SeqUpTo(PathKinds, n) ELSE {<<>>} :
     \E b64s \in IF ctype = "json" /\ ro = "12345" /\ variant = "final"
                 THEN SeqUpTo(B64Kinds, n - Len(paths)) ELSE {<<>>} :
     \E comments \in IF plain THEN {"Brake pads worn"}
                     ELSE IF ro = "12345" THEN CommentValues ELSE {""} :
     \E condition \in IF ro = "12345" /\ variant = "final" /\ ~plain
                      THEN ConditionValues ELSE {"omitted"} :
     \E rowid \in IF ro = "12345" /\ variant = "bridge" THEN {"absent", "cd64"} ELSE {"absent"} :
     \E ms \in IF ro # "12345" \/ plain THEN {"omitted"}
               ELSE IF ctype = "json" THEN JsonFlagValues ELSE FormFlagValues :
     \E mc \in IF ro # "12345" \/ plain THEN {"omitted"}
               ELSE IF ctype = "json" THEN JsonFlagValues ELSE FormFlagValues :
       LET rq == [BlankReq(variant, "iso_inspection") EXCEPT
                    !.ctype = ctype, !.body = body, !.ro = ro, !.comments = comments,
                    !.condition = condition, !.files = files, !.paths = paths,
                    !.b64s = b64s, !.move_to_start = ms, !.move_to_complete = mc,
                    !.rowid = rowid]
           missing == IF variant = "final" THEN "Missing required field 'ro_number'"
                      ELSE "Missing ro_number"
           staged == IF variant = "final"
                     THEN StageB64(b64s, StagePaths(variant, paths,
                                                    StageFiles("tmp_", files, StageStart)))
                     ELSE IF ctype = "multipart"
                     THEN StageFiles("/tmp/", files, StageStart)
                     ELSE StagePaths(variant, paths, StageStart)
           hr == [IdleHandler EXCEPT
                    !.image_paths = staged.paths,
                    !.created = staged.created,
                    !.cleanup = IF variant = "final" THEN staged.paths ELSE staged.temp,
                    !.rowid = IF rowid = "absent" THEN "" ELSE rowid,
                    !.move_to_start =
                       IF variant = "final" THEN FinalFlag(ms)
                       ELSE IF ctype = "multipart" THEN FormBool(ms, TRUE) ELSE JsonBool(ms),
                    !.move_to_complete =
                       IF variant = "final" THEN FinalFlag(mc)
                       ELSE IF ctype = "multipart" THEN FormBool(mc, TRUE) ELSE JsonBool(mc)]
           ctrn == [ctr EXCEPT !.uuids = staged.uuids]
       IN  IF variant = "final"
           THEN IF body = "array"
                THEN Leave(r, rq, IdleHandler, Escaped("AttributeError"), fs, ctr)
                ELSE IF body = "invalid" \/ ro \in {"absent", ""}
                THEN Leave(r, rq, IdleHandler, JsonResp(400, FALSE, missing), fs, ctr)
                ELSE IF staged.raised
                THEN Leave(r, rq, [IdleHandler EXCEPT !.created = staged.created],
                           Escaped("OSError"), staged.files, ctrn)
                ELSE Commit(r, rq, [hr EXCEPT !.pc = "login"], staged.files, ctrn)
           ELSE IF staged.raised
                THEN Raise(r, rq, hr, "OSError", staged.files, ctrn)
                ELSE IF body = "invalid"
                THEN Raise(r, rq, hr, "BadRequest", staged.files, ctrn)
                ELSE IF body = "array"
                THEN Raise(r, rq, hr, "AttributeError", staged.files, ctrn)
                ELSE IF ro \in {"absent", ""}
                THEN Return(r, rq, hr, JsonResp(400, FALSE, missing), staged.files, ctrn)
                ELSE Commit(r, rq, [hr EXCEPT !.pc = "login"], staged.files, ctrn)

\* ------------------------------------------------- library functions: text
\* a str is the sequence of its characters; None is a value of its own
None == <<"None">>
UpperCase == <<"A", "B", "C", "D", "E", "F", "G", "H", "I", "J", "K", "L", "M", "N", "O", "P", "Q", "R", "S", "T", "U", "V", "W", "X", "Y", "Z">>
LowerCase == <<"a", "b", "c", "d", "e", "f", "g", "h", "i", "j", "k", "l", "m", "n", "o", "p", "q", "r", "s", "t", "u", "v", "w", "x", "y", "z">>

\* str.lower()
LowerChar(c) ==
  IF \E i \in 1..Len(UpperCase) : UpperCase[i] = c
  THEN LowerCase[CHOOSE i \in 1..Len(UpperCase) : UpperCase[i] = c] ELSE c
Lower(s) == [i \in 1..Len(s) |-> LowerChar(s[i])]

\* (x or "")
OrEmpty(x) == IF x = None THEN <<>> ELSE x

\* k in s
Contains(k, s) ==
  \E i \in 0..(Len(s) - Len(k)) : SubSeq(s, i + 1, i + Len(k)) = k

\* any(k in s for k in keywords)
AnyIn(keywords, s) == \E i \in 1..Len(keywords) : Contains(keywords[i], s)

\* the keyword lists of ro_has_oil_service and ro_has_wheel_work, and the
\* checklist names they look for
OilKeywords ==
  << <<"o", "i", "l", " ", "c", "h", "a", "n", "g", "e">>,
     <<"l", "u", "b", "e", ",", " ", "o", "i", "l">>,
     <<"o", "i", "l", " ", "c", "a", "p", "a", "c", "i", "t", "y", " ", "v", "e", "r", "i", "f", "i", "e", "d">>,
     <<"o", "i", "l", " ", "f", "i", "l", "t", "e", "r">>,
     <<"s", "y", "n", "t", "h", "e", "t", "i", "c", " ", "o", "i", "l">>,
     <<"e", "n", "g", "i", "n", "e", " ", "o", "i", "l">> >>
WheelKeywords ==
  << <<"t", "i", "r", "e">>,
     <<"m", "o", "u", "n", "t", " ", "a", "n", "d", " ", "b", "a", "l", "a", "n", "c", "e">>,
     <<"w", "h", "e", "e", "l", " ", "b", "a", "l", "a", "n", "c", "e">>,
     <<"a", "l", "i", "g", "n", "m", "e", "n", "t">>,
     <<"b", "r", "a", "k", "e">>,
     <<"c", "v", " ", "a", "x", "l", "e">>,
     <<"s", "t", "r", "u", "t">>,
     <<"s", "h", "o", "c", "k">>,
     <<"c", "o", "n", "t", "r", "o", "l", " ", "a", "r", "m">>,
     <<"b", "a", "l", "l", " ", "j", "o", "i", "n", "t">>,
     <<"w", "h", "e", "e", "l", " ", "b", "e", "a", "r", "i", "n", "g">>,
     <<"r", "i", "m">>,
     <<"l", "u", "g">>,
     <<"h", "u", "b">> >>
OilSignoff == <<"o", "i", "l", " ", "c", "h", "a", "n", "g", "e", " ", "s", "i", "g", "n", "o", "f", "f">>
WheelSignoff == <<"w", "h", "e", "e", "l", " ", "t", "o", "r", "q", "u", "e", " ", "s", "i", "g", "n", "o", "f", "f">>

\* a variant that scans the checklist names for the keywords themselves
\* (sensitivity of C14)
ChecklistHitKeywords(keywords, signoff, name) == AnyIn(keywords, Lower(OrEmpty(name)))
\* "... signoff" in (cl.get("Name") or "").lower()
ChecklistHit(keywords, signoff, name) == Contains(signoff, Lower(OrEmpty(name)))

\* the body shared by ro_has_oil_service and ro_has_wheel_work: Requests,
\* then each labor Description, then each checklist Name
DetectService(ro_detail, keywords, signoff) ==
  \/ AnyIn(keywords, Lower(OrEmpty(ro_detail.Requests)))
  \/ \E i \in 1..Len(ro_detail.LaborList) :
       AnyIn(keywords, Lower(OrEmpty(ro_detail.LaborList[i].Description)))
  \/ \E i \in 1..Len(ro_detail.CheckLists) :
       ChecklistHit(keywords, signoff, ro_detail.CheckLists[i].Name)

ro_has_oil_service(ro_detail) == DetectService(ro_detail, OilKeywords, OilSignoff)
ro_has_wheel_work(ro_detail) == DetectService(ro_detail, WheelKeywords, WheelSignoff)

\* RO details the detectors are applied to
RequestTexts == {None, <<>>, <<"o", "i", "l", " ", "f", "i", "l", "t", "e", "r", " ", "r", "e", "p", "l", "a", "c", "e", "m", "e", "n", "t">>, <<"C", "u", "s", "t", "o", "m", "e", "r", " ", "s", "t", "a", "t", "e", "s", " ", "w", "i", "p", "e", "r", "s", " ", "s", "t", "r", "e", "a", "k">>}
LaborDescriptions ==
  {None, <<"B", "r", "a", "k", "e", " ", "p", "a", "d", " ", "r", "e", "p", "l", "a", "c", "e", "m", "e", "n", "t">>,
   <<"S", "Y", "N", "T", "H", "E", "T", "I", "C", " ", "O", "I", "L", " ", "s", "e", "r", "v", "i", "c", "e">>,
   <<"W", "i", "p", "e", "r", " ", "b", "l", "a", "d", "e", "s">>}
ChecklistNames ==
  {None, <<"O", "i", "l", " ", "C", "h", "a", "n", "g", "e", " ", "S", "i", "g", "n", "o", "f", "f">>,
   <<"W", "h", "e", "e", "l", " ", "T", "o", "r", "q", "u", "e", " ", "S", "i", "g", "n", "o", "f", "f">>,
   <<"O", "i", "l", " ", "F", "i", "l", "t", "e", "r", " ", "C", "h", "e", "c", "k">>,
   <<"I", "S", "O", " ", "V", "e", "h", "i", "c", "l", "e", " ", "I", "n", "s", "p", "e", "c", "t", "i", "o", "n">>}
\* entries of LaborList and of CheckLists in one RO detail
MaxItems == 2
RoDetails ==
  {[Requests |-> q, LaborList |-> [i \in 1..Len(ls) |-> [Description |-> ls[i]]],
    CheckLists |-> [i \in 1..Len(cs) |-> [Name |-> cs[i]]]] :
     q \in RequestTexts, ls \in SeqUpTo(LaborDescriptions, MaxItems),
     cs \in SeqUpTo(ChecklistNames, MaxItems)}

\* ------------------------------------------- library functions: lookup
\* a value Python treats as false where an identifier is expected
Falsy(x) == x = None \/ x = <<>>

\* find_labor_id_by_description(ro_detail, target): the ID of the first
\* labor whose Description contains target (both lowered) and whose ID is
\* not falsy; None when there is none
RECURSIVE FindLabor(_, _)
FindLabor(labors, target) ==
  IF labors = <<>> THEN None
  ELSE IF /\ Contains(Lower(target), Lower(OrEmpty(Head(labors).Description)))
          /\ ~Falsy(Head(labors).ID)
       THEN Head(labors).ID
       ELSE FindLabor(Tail(labors), target)
\* a variant that returns the ID of the first labor matching, whatever it
\* is (sensitivity of C24)
find_labor_id_first_match(ro_detail, target) ==
  LET labors == ro_detail.LaborList
      hits == {i \in 1..Len(labors) :
                 Contains(Lower(target), Lower(OrEmpty(labors[i].Description)))}
  IN  IF hits = {} THEN None
      ELSE labors[CHOOSE i \in hits : \A j \in hits : i <= j].ID
find_labor_id_by_description(ro_detail, target) == FindLabor(ro_detail.LaborList, target)

\* the keyword resolve_iso_labor_and_item searches labors for, and the
\* word it searches item titles for
IsoTarget == <<"I", "S", "O">>
IsoWord == <<"i", "s", "o">>

\* items_payload is a list, or a dict that may have "Items"
ItemsOf(payload) == IF payload.type = "dict_noitems" THEN <<>> ELSE payload.v

\* a variant that falls back to the last item (sensitivity of C15)
FallbackItemLast(items) == items[Len(items)]
\* if not iso_item: iso_item = items[0]
FallbackItem(items) == items[1]

\* the loop over items: the first whose lowered Title contains "iso",
\* otherwise the fallback
SelectIsoItem(items) ==
  LET hits == {i \in 1..Len(items) : Contains(IsoWord, Lower(OrEmpty(items[i].Title)))}
  IN  IF hits # {} THEN items[CHOOSE i \in hits : \A j \in hits : i <= j]
      ELSE FallbackItem(items)

Failure(msg) == [ok |-> FALSE, error |-> msg]
Resolved(labor_id, item_id) == [ok |-> TRUE, labor_id |-> labor_id, item_id |-> item_id]

\* resolve_iso_labor_and_item from get_checklist_items on
ResolveItem(labor_id, payload) ==
  LET items == ItemsOf(payload)
  IN  IF items = <<>> THEN Failure("No checklist items returned for ISO labor")
      ELSE IF Falsy(SelectIsoItem(items).ID)
      THEN Failure("Could not determine ISO item ID")
      ELSE Resolved(labor_id, SelectIsoItem(items).ID)

\* resolve_iso_labor_and_item: static identifiers from config.py when both
\* are set, otherwise the labor found in the RO detail and its item
resolve_iso_labor_and_item(cfg, ro_detail, payload) ==
  IF cfg.ISO_LABOR_ID # "None" /\ cfg.ISO_ITEM_ID # "None"
  THEN Resolved(cfg.ISO_LABOR_ID, cfg.ISO_ITEM_ID)
  ELSE IF Falsy(find_labor_id_by_description(ro_detail, IsoTarget))
  THEN Failure("Could not find ISO labor")
  ELSE ResolveItem(find_labor_id_by_description(ro_detail, IsoTarget), payload)

\* labors of an RO detail and checklist items of a labor, as the vendor
\* returns them
Labors ==
  {[Description |-> <<"I", "S", "O", " ", "V", "e", "h", "i", "c", "l", "e", " ", "I", "n", "s", "p", "e", "c", "t", "i", "o", "n">>, ID |-> <<"L", "1">>],
   [Description |-> <<"i", "s", "o", " ", "c", "h", "e", "c", "k">>, ID |-> None],
   [Description |-> <<"O", "i", "l", " ", "c", "h", "a", "n", "g", "e">>, ID |-> <<"L", "2">>]}
Items ==
  {[Title |-> t, ID |-> i] :
     t \in {None, <<"I", "S", "O", " ", "P", "h", "o", "t", "o", "s">>, <<"T", "i", "r", "e", " ", "t", "r", "e", "a", "d", " ", "d", "e", "p", "t", "h">>},
     i \in {None, <<"I", "1">>, <<"I", "2">>}}
LaborDetails ==
  {[Requests |-> None, LaborList |-> ls, CheckLists |-> <<>>] : ls \in SeqUpTo(Labors, MaxItems)}
Payloads ==
  {[type |-> t, v |-> its] : t \in {"list", "dict"}, its \in SeqUpTo(Items, MaxItems)}
    \cup {[type |-> "dict_noitems", v |-> <<>>]}

\* ---------------------------------------------- inspection: vendor steps
\* resolve_iso_labor_and_item, dynamic path: get_ro_detail, then
\* find_labor_id_by_description(ro_detail, "ISO")
\* the RO details the vendor answers an inspection's get_ro_detail with
InspectionDetails == {d \in LaborDetails : Len(d.LaborList) <= 1}

\* the labor ID as the handler's labor_id local holds it
IdText(id) ==
  CASE id = <<"L", "1">> -> "labor-1"
    [] id = <<"L", "2">> -> "labor-2"
    [] OTHER -> ""

\* a variant without the check of the labor found (sensitivity of C16)
LaborMissingNever(found) == FALSE
\* if not labor_id: raise RuntimeError("Could not find ISO labor ...")
LaborMissing(found) == Falsy(found)

GetRODetail(r) ==
  /\ h[r].pc = "resolve"
  /\ \E ok \in BOOLEAN :
     \E d \in IF ok THEN InspectionDetails ELSE {IdleHandler.ro_detail} :
       LET hr == [Logged(h[r], Call("GetRODetail", TokenOf(h[r]), req[r].ro, "", 0, ok))
                  EXCEPT !.ro_detail = d]
           found == find_labor_id_by_description(d, IsoTarget)
       IN  IF ~ok THEN Raise(r, req[r], hr, "DVIError GetRODetail", fs, ctr)
           ELSE IF LaborMissing(found)
           THEN Raise(r, req[r], hr, "Could not find ISO labor", fs, ctr)
           ELSE Commit(r, req[r], [hr EXCEPT !.pc = "items", !.labor_id = IdText(found)],
                       fs, ctr)

\* resolve_iso_labor_and_item, dynamic path: get_checklist_items and the
\* choice of the item
GetChecklistItems(r) ==
  /\ h[r].pc = "items"
  /\ \E out \in {"http_error", "empty", "no_id", "item"} :
       LET hr == Logged(h[r], Call("GetCheckListItemsV2", TokenOf(h[r]), "", h[r].labor_id, 0,
                                   out # "http_error"))
       IN  CASE out = "http_error" -> Raise(r, req[r], hr, "DVIError GetCheckListItemsV2", fs, ctr)
             [] out = "empty" -> Raise(r, req[r], hr, "No checklist items returned", fs, ctr)
             [] out = "no_id" -> Raise(r, req[r], hr, "Could not determine ISO item ID", fs, ctr)
             [] OTHER -> After(r, [hr EXCEPT !.item_id = "item-1"], "resolve", ctr)

\* the part of a vendor page the scrapers read: the action attribute of its
\* first form (None without a form, empty without the attribute) and the
\* input with id hOriginalROWID (its value None without the attribute)
FormActions ==
  {None,
   <<>>,
   <<"c", "?", "T", "y", "p", "e", "=", "R">>,
   <<"c", "?", "I", "D", "=", "6", "8", "&", "T", "y", "p", "e", "=", "R">>,
   <<"e", "?", "r", "o", "w", "i", "d", "=", "c", "d", "&", "T", "y", "p", "e", "=", "R">>,
   <<"c", "?", "I", "D", "=", "&", "r", "o", "w", "i", "d", "=", "c", "d">>,
   <<"c", "?", "I", "D", "=">>}
HiddenInputs ==
  {[tag |-> FALSE, value |-> None], [tag |-> TRUE, value |-> None],
   [tag |-> TRUE, value |-> <<>>], [tag |-> TRUE, value |-> <<"H", "1">>]}
BlankPage == [form |-> None, hidden |-> [tag |-> FALSE, value |-> None]]

\* what requests.get gives for a page: an exception, an error status, or a
\* page with a status below 400
PageAnswers ==
  {[raises |-> TRUE, status_code |-> 0, page |-> BlankPage]}
  \cup {[raises |-> FALSE, status_code |-> c, page |-> BlankPage] : c \in {404, 500}}
  \cup {[raises |-> FALSE, status_code |-> c, page |-> [form |-> f, hidden |-> i]] :
          c \in {200, 201}, f \in FormActions, i \in HiddenInputs}

\* s.split(sep)[0]: the text before the first sep
RECURSIVE Before(_, _)
Before(sep, s) ==
  IF s = <<>> \/ (Len(s) >= Len(sep) /\ SubSeq(s, 1, Len(sep)) = sep) THEN <<>>
  ELSE <<Head(s)>> \o Before(sep, Tail(s))

\* s.split(sep)[1], for an s that contains sep: the text between its first
\* occurrence and the next one
Behind(sep, s) ==
  Before(sep, SubSeq(s, Len(Before(sep, s)) + Len(sep) + 1, Len(s)))

\* action.split(name)[1].split("&")[0]
ParamOf(name, action) == Before(<<"&">>, Behind(name, action))

IdParam == <<"I", "D", "=">>
RowidParam == <<"r", "o", "w", "i", "d", "=">>

\* the RowID of the form action: ID= first, then rowid=; None without one
ActionRowid(form) ==
  IF form = None THEN None
  ELSE IF Contains(IdParam, form) /\ ParamOf(IdParam, form) # <<>>
  THEN ParamOf(IdParam, form)
  ELSE IF Contains(RowidParam, form) /\ ParamOf(RowidParam, form) # <<>>
  THEN ParamOf(RowidParam, form)
  ELSE None

\* the hidden input's value, None when the tag or a truthy value is missing
HiddenRowid(hidden) ==
  IF hidden.tag /\ ~Falsy(hidden.value) THEN hidden.value ELSE None

\* a variant that reads the hidden input first (sensitivity of C22)
RowidInHiddenFirst(page) ==
  IF HiddenRowid(page.hidden) # None THEN HiddenRowid(page.hidden)
  ELSE ActionRowid(page.form)
\* the RowID one page yields: the form action's, else the hidden input's
RowidIn(page) ==
  IF ActionRowid(page.form) # None THEN ActionRowid(page.form)
  ELSE HiddenRowid(page.hidden)

\* get_rowid_for_ro: GET the candidate pages in order until one yields a RowID
CandidatePages == <<"GET Checklist.aspx", "GET EditChecklist.aspx?RONumber">>

GetRowidPage(r) ==
  /\ h[r].pc = "rowid"
  /\ \E a \in PageAnswers :
       LET out == IF a.raises \/ a.status_code >= 400 THEN "http_error"
                  ELSE IF RowidIn(a.page) = None THEN "none" ELSE "found"
           c == h[r].cand + 1
           hr == [Logged(h[r], Call(CandidatePages[c], TokenOf(h[r]), req[r].ro, "", 0,
                                    out # "http_error")) EXCEPT !.cand = c]
       IN  IF out = "found"
           THEN After(r, [hr EXCEPT !.rowid = "scraped"], "rowid", ctr)
           ELSE IF c < Len(CandidatePages)
           THEN Commit(r, req[r], hr, fs, ctr)
           ELSE Raise(r, req[r], hr, "Unable to determine RowID", fs, ctr)

\* condition sent with the comments: "Failed Inspection" when there are any
ConditionOf(rq) ==
  IF rq.variant = "final" /\ rq.condition # "omitted" THEN rq.condition
  ELSE IF rq.comments # "" THEN "Failed Inspection" ELSE ""

\* final: dvi_client.save_checklist, one POST /SaveChecklist
SaveChecklist(r) ==
  /\ h[r].pc = "checklist"
  /\ \E ok \in BOOLEAN :
       LET hr == Logged(h[r], Call("SaveChecklist", TokenOf(h[r]), req[r].ro,
                                   ConditionOf(req[r]), 0, ok))
       IN  IF ok THEN After(r, hr, "checklist", ctr)
           ELSE Raise(r, req[r], hr, "DVIError SaveChecklist", fs, ctr)

\* bridge: _post_iso_webform_comment, the GET of the web form and its hidden fields
FormGet(r) ==
  /\ h[r].pc = "form_get"
  /\ \E out \in {"http_error", "missing_field", "ok"} :
       LET hr == Logged(h[r], Call("GET EditChecklist.aspx?rowid", TokenOf(h[r]), "",
                                   h[r].rowid, 0, out # "http_error"))
       IN  CASE out = "http_error" -> Raise(r, req[r], hr, "HTTPError EditChecklist", fs, ctr)
             [] out = "missing_field" ->
                  Raise(r, req[r], hr, "Missing required hidden field", fs, ctr)
             [] OTHER -> Commit(r, req[r], [hr EXCEPT !.pc = "form_post"], fs, ctr)

\* bridge: _post_iso_webform_comment, the POST of comment and condition
FormPost(r) ==
  /\ h[r].pc = "form_post"
  /\ \E ok \in BOOLEAN :
       LET hr == Logged(h[r], Call("POST EditChecklist.aspx", TokenOf(h[r]), "",
                                   ConditionOf(req[r]), 0, ok))
       IN  IF ok THEN After(r, hr, "form_get", ctr)
           ELSE Raise(r, req[r], hr, "HTTPError EditChecklist", fs, ctr)

\* one image is finished (attached, or failed): on to the next image or stage
NextImage(r, hr, ctrn) ==
  Goto(r, req[r], [hr EXCEPT !.k = @ + 1, !.blob = 0],
       StageIndex(req[r], "upload"), fs, ctrn)

\* a variant that walks the image list backwards (sensitivity of C12)
ImageAtReversed(hr) == Len(hr.image_paths) - hr.k
\* for p in image_paths: the position of the image the loop is at
ImageAt(hr) == hr.k + 1

\* what the except clause of the image loop keeps of a failure: final
\* appends a message naming the path, bridge only prints it
ImageFailed(rq, hr, p) ==
  IF rq.variant = "final" THEN [hr EXCEPT !.upload_errors = Append(@, p)] ELSE hr

\* save_media(token, path) of image k+1: the empty path (final: ValueError,
\* bridge: skipped) and a path that names no file issue no vendor call
UploadImage(r) ==
  /\ h[r].pc = "upload"
  /\ LET p == h[r].image_paths[ImageAt(h[r])]
     IN  IF p = NoPath /\ req[r].variant = "bridge"
         THEN NextImage(r, h[r], ctr)
         ELSE IF p = NoPath \/ p \notin fs
         THEN NextImage(r, ImageFailed(req[r], h[r], p), ctr)
         ELSE \E ok \in BOOLEAN :
                LET hr == Logged(h[r], [Call("SaveMedia", TokenOf(h[r]), "", "",
                                                 IF ok THEN ctr.blobs + 1 ELSE 0, ok)
                                            EXCEPT !.img = ImageAt(h[r])])
                IN  IF ok
                    THEN Commit(r, req[r], [hr EXCEPT !.pc = "attach", !.blob = ctr.blobs + 1],
                                fs, [ctr EXCEPT !.blobs = @ + 1])
                    ELSE NextImage(r, ImageFailed(req[r], hr, p), ctr)

\* a variant that attaches the first blob of the request again (sensitivity
\* of C13)
BlobToAttachFirst(hr) == IF hr.blobs = <<>> THEN hr.blob ELSE hr.blobs[1]
\* blob_name=blob: the blob the attach call names is the one save_media
\* just returned
BlobToAttach(hr) == hr.blob

\* save_checklist_image_cloud(..., blob) for the blob just uploaded
AttachImage(r) ==
  /\ h[r].pc = "attach"
  /\ \E ok \in BOOLEAN :
       LET p == h[r].image_paths[ImageAt(h[r])]
           hr == Logged(h[r], [Call("SaveChecklistImageCloud", TokenOf(h[r]), req[r].ro,
                                    h[r].item_id, BlobToAttach(h[r]), ok)
                               EXCEPT !.img = ImageAt(h[r])])
       IN  IF ok THEN NextImage(r, [hr EXCEPT !.blobs = Append(@, h[r].blob)], ctr)
           ELSE NextImage(r, ImageFailed(req[r], hr, p), ctr)

\* ---------------------------------------------------------- specification
\* one request: every endpoint, every input of the model
Next ==
  \/ ReceiveStatus(1)
  \/ ReceiveHealth(1)
  \/ ReceiveUpload(1)
  \/ ReceiveInspection(1, MaxImages, FALSE)
  \/ Login(1)
  \/ StatusOnly(1)
  \/ GetRODetail(1)
  \/ GetChecklistItems(1)
  \/ GetRowidPage(1)
  \/ UploadImage(1)
  \/ AttachImage(1)
  \/ SaveChecklist(1)
  \/ FormGet(1)
  \/ FormPost(1)
  \/ StatusStart(1)
  \/ StatusComplete(1)

Spec == Init /\ [][Next]_vars

\* MaxReqs requests handled concurrently (Flask serves each request on its
\* own thread), interleaved at vendor calls; config.py as the repository
\* has it, inspection requests plain and without images
InitConc == Init /\ StaticIds

NextConc ==
  \E r \in Reqs :
    \/ ReceiveStatus(r)
    \/ ReceiveHealth(r)
    \/ ReceiveUpload(r)
    \/ ReceiveInspection(r, 0, TRUE)
    \/ Login(r)
    \/ StatusOnly(r)
    \/ GetRowidPage(r)
    \/ SaveChecklist(r)
    \/ FormGet(r)
    \/ FormPost(r)
    \/ StatusStart(r)
    \/ StatusComplete(r)

SpecConc == InitConc /\ [][NextConc]_vars

\* ------------------------------------------- staging, then the inspection
\* the temp paths that successful /dvi/upload_image requests of one server
\* have returned so far
UploadedPaths(variant) ==
  UNION {h[q].created : q \in {x \in Reqs : /\ req[x].endpoint = "upload_image"
                                            /\ req[x].variant = variant
                                            /\ h[x].pc = "done" /\ h[x].resp.ok}}

\* POST /dvi/iso_inspection, restricted to the JSON request a client sends
\* after staging: ro_number given, flags omitted, image_paths listing temp
\* paths that /dvi/upload_image returned, in this run or before it (bridge:
\* rowid given)
ReceiveInspectionStaged(r) ==
  /\ req[r] = NoReq
  /\ \E variant \in Variants :
     \E listed \in SeqUpTo(UploadedPaths(variant) \cup {StagedPath(variant)}, MaxImages) :
       LET rq == [BlankReq(variant, "iso_inspection") EXCEPT
                    !.ro = "12345", !.paths = [i \in 1..Len(listed) |-> "staged"],
                    !.rowid = IF variant = "bridge" THEN "cd64" ELSE "absent"]
           hr == [IdleHandler EXCEPT
                    !.image_paths = listed,
                    !.cleanup = IF variant = "final" THEN listed ELSE <<>>,
                    !.rowid = IF variant = "bridge" THEN "cd64" ELSE "",
                    !.move_to_start = TRUE, !.move_to_complete = TRUE]
       IN  Commit(r, rq, [hr EXCEPT !.pc = "login"], fs, ctr)

\* a client that stages images with /dvi/upload_image and then lists them in
\* inspection requests; requests interleave at vendor calls
NextStaged ==
  \E r \in Reqs :
    \/ ReceiveUpload(r)
    \/ ReceiveInspectionStaged(r)
    \/ Login(r)
    \/ UploadImage(r)
    \/ AttachImage(r)
    \/ SaveChecklist(r)
    \/ FormGet(r)
    \/ FormPost(r)
    \/ StatusStart(r)
    \/ StatusComplete(r)

SpecStaged == InitConc /\ [][NextStaged]_vars

\* ------------------------------------------ library functions: calls
\* one call of a detector on an RO detail
CallOilService ==
  /\ ev.fn = "none"
  /\ \E d \in RoDetails :
       ev' = [fn |-> "ro_has_oil_service", arg |-> d, out |-> ro_has_oil_service(d)]
  /\ UNCHANGED <<config, req, h, fs, ctr>>

CallWheelWork ==
  /\ ev.fn = "none"
  /\ \E d \in RoDetails :
       ev' = [fn |-> "ro_has_wheel_work", arg |-> d, out |-> ro_has_wheel_work(d)]
  /\ UNCHANGED <<config, req, h, fs, ctr>>

NextDetect == CallOilService \/ CallWheelWork

SpecDetect == InitConc /\ [][NextDetect]_vars

\* one call of resolve_iso_labor_and_item, with the vendor's two answers
\* (with static identifiers the vendor is not asked)
CallResolve ==
  /\ ev.fn = "none"
  /\ \E d \in IF StaticIds THEN {CHOOSE x \in LaborDetails : x.LaborList = <<>>}
                ELSE LaborDetails,
        p \in IF StaticIds THEN {[type |-> "dict_noitems", v |-> <<>>]} ELSE Payloads :
       ev' = [fn |-> "resolve_iso_labor_and_item", cfg |-> config, ro_detail |-> d,
              payload |-> p, out |-> resolve_iso_labor_and_item(config, d, p)]
  /\ UNCHANGED <<config, req, h, fs, ctr>>

\* the keywords find_labor_id_by_description is called with
LaborTargets == {IsoTarget, <<"o", "i", "l">>, <<"P", "M", "A">>}

CallFindLabor ==
  /\ ev.fn = "none"
  /\ \E d \in LaborDetails, target \in LaborTargets :
       ev' = [fn |-> "find_labor_id_by_description", ro_detail |-> d, target |-> target,
              out |-> find_labor_id_by_description(d, target)]
  /\ UNCHANGED <<config, req, h, fs, ctr>>

NextLookup == CallResolve \/ CallFindLabor

SpecLookup == Init /\ [][NextLookup]_vars

\* ------------------------------------------ library functions: wrappers
\* the vendor's answer to one HTTP request: status code, reason phrase, body
HttpCodes == {200, 201, 404, 500}
Reasons(code) ==
  CASE code = 200 -> "OK"
    [] code = 201 -> "Created"
    [] code = 404 -> "Not Found"
    [] code = 500 -> "Internal Server Error"
ResponseBodies == {"", "OK", "\"OK\"", "RO locked"}
VendorResponses ==
  {[status_code |-> c, reason |-> Reasons(c), text |-> b] : c \in HttpCodes, b \in ResponseBodies}

\* str(status_code)
CodeText(code) ==
  CASE code = 200 -> "200"
    [] code = 201 -> "201"
    [] code = 404 -> "404"
    [] code = 500 -> "500"

\* the message of the HTTPError that requests' raise_for_status() raises:
\* "<code> Client|Server Error: <reason> for url: <url>"
HTTPErrorMessage(url, resp) ==
  <<CodeText(resp.status_code),
    IF resp.status_code < 500 THEN "Client Error" ELSE "Server Error",
    resp.reason, "for url", url>>

\* raise_for_status() raises for 400 <= status_code < 600
RaisesForStatus(resp) == resp.status_code >= 400 /\ resp.status_code < 600

Raised(type, message) == [ok |-> FALSE, error |-> type, message |-> message]
Returned(value) == [ok |-> TRUE, value |-> value]

\* a variant that strips the quotes around the body, as save_media does
\* (sensitivity of C17)
ResponseTextStripped(resp) == IF resp.text = "\"OK\"" THEN "OK" ELSE resp.text
\* return resp.text
ResponseText(resp) == resp.text

\* the POSTs change_status issues: one, with RONumber, Status and Type
ChangeStatusPosts(token, ro_number, status, ro_type) ==
  <<[url |-> "/ChangeStatus", bearer |-> token,
     body |-> [RONumber |-> ro_number, Status |-> status, Type |-> ro_type]]>>

\* change_status(token, ro_number, status, ro_type) given the vendor's answer
change_status(token, ro_number, status, ro_type, resp) ==
  IF RaisesForStatus(resp)
  THEN Raised("HTTPError", HTTPErrorMessage("/ChangeStatus", resp))
  ELSE Returned(ResponseText(resp))

\* ro_type as the caller passes it: omitted (the default "R" applies) or given
RoTypeOf(given) == IF given = "omitted" THEN "R" ELSE given

\* one call of change_status (dvi_status.py and dvi_bridge.py hold the same
\* function)
CallChangeStatus ==
  /\ ev.fn = "none"
  /\ \E variant \in Variants, status \in {"3", "4", "5", "8"}, ro \in {"12345", "67890"},
        given \in {"omitted", "R", "W"}, resp \in VendorResponses :
       ev' = [fn |-> "change_status", variant |-> variant, token |-> "tok",
              ro_number |-> ro, status |-> status, ro_type |-> given, resp |-> resp,
              posts |-> ChangeStatusPosts("tok", ro, status, RoTypeOf(given)),
              out |-> change_status("tok", ro, status, RoTypeOf(given), resp)]
  /\ UNCHANGED <<config, req, h, fs, ctr>>

\* save_media arguments: image_path is None, "", the path of a file or a
\* path naming none; image_bytes is None, b"" or data (dvi_bridge.save_media
\* has no image_bytes parameter)
MediaPaths == {"None", "", "exists", "missing"}
MediaBytes == {"None", "", "data"}
\* not x, for an argument of save_media
NotGiven(x) == x \in {"None", ""}

\* a variant without the argument check (sensitivity of C20)
NothingSuppliedNever(image_path, image_bytes) == FALSE
\* if not image_path and not image_bytes: raise ValueError(...)
NothingSupplied(image_path, image_bytes) == NotGiven(image_path) /\ NotGiven(image_bytes)

\* the body of a SaveMedia answer, character by character; Quote is the
\* character ", EscapedQuote the two characters \" of a JSON string literal
Quote == "\""
EscapedQuote == "\\\""
MediaBodies ==
  {<<Quote>> \o <<"a", "1", ".", "j", "p", "g">> \o <<Quote>>,
   <<Quote, EscapedQuote>> \o <<"a", "1", ".", "j", "p", "g">> \o <<EscapedQuote, Quote>>,
   <<Quote>> \o <<"b", "l", "o", "b", "7">> \o <<Quote>>,
   <<Quote, Quote>>,
   <<"{", "}">>,
   <<"O", "K">>,
   <<>>}
MediaResponses ==
  {[status_code |-> c, reason |-> Reasons(c), text |-> b] : c \in HttpCodes, b \in MediaBodies}

\* resp.json(): a JSON string literal decodes to its characters (\" to "),
\* {} to a dict; any other body of the model is not JSON
IsJsonString(text) ==
  /\ Len(text) >= 2 /\ text[1] = Quote /\ text[Len(text)] = Quote
  /\ \A i \in 2..(Len(text) - 1) : text[i] # Quote
JsonString(text) ==
  [i \in 1..(Len(text) - 2) |-> IF text[i + 1] = EscapedQuote THEN Quote ELSE text[i + 1]]

\* a variant that returns the decoded string as it is (sensitivity of C21)
StripQuotesNot(s) == s
\* str.strip('"'): drop every leading and trailing quote character
RECURSIVE StripQuotes(_)
StripQuotes(s) ==
  IF s = <<>> THEN s
  ELSE IF Head(s) = Quote THEN StripQuotes(Tail(s))
  ELSE IF s[Len(s)] = Quote THEN StripQuotes(SubSeq(s, 1, Len(s) - 1))
  ELSE s

\* return resp.json().strip('"')
BlobNameOf(resp) ==
  IF IsJsonString(resp.text) THEN Returned(StripQuotes(JsonString(resp.text)))
  ELSE IF resp.text = <<"{", "}">> THEN Raised("AttributeError", <<"strip">>)
  ELSE Raised("JSONDecodeError", <<>>)

\* the upload save_media posts, and what it returns for the vendor's answer
MediaPost(token, content) ==
  <<[url |-> "/v2/BlobStorage/SaveMedia", bearer |-> token, body |-> content]>>
MediaResult(resp) ==
  IF RaisesForStatus(resp)
  THEN Raised("HTTPError", HTTPErrorMessage("/v2/BlobStorage/SaveMedia", resp))
  ELSE BlobNameOf(resp)

\* save_media: the POSTs it issues and its outcome.  dvi_media.save_media
\* checks its arguments, then reads the file if a path is given and uses
\* the bytes otherwise; dvi_bridge.save_media opens image_path at once.
save_media(variant, token, image_path, image_bytes, resp) ==
  IF variant = "final" /\ NothingSupplied(image_path, image_bytes)
  THEN [posts |-> <<>>, out |-> Raised("ValueError", <<"Must provide either image_path or image_bytes">>)]
  ELSE IF variant = "bridge" /\ image_path = "None"
  THEN [posts |-> <<>>, out |-> Raised("TypeError", <<>>)]
  ELSE IF variant = "bridge" \/ ~NotGiven(image_path)
  THEN IF image_path = "exists"
       THEN [posts |-> MediaPost(token, "file content"), out |-> MediaResult(resp)]
       ELSE [posts |-> <<>>, out |-> Raised("FileNotFoundError", <<image_path>>)]
  ELSE [posts |-> MediaPost(token, image_bytes), out |-> MediaResult(resp)]

\* one call of save_media
CallSaveMedia ==
  /\ ev.fn = "none"
  /\ \E variant \in Variants, image_path \in MediaPaths, resp \in MediaResponses :
     \E image_bytes \in IF variant = "final" THEN MediaBytes ELSE {"None"} :
       LET res == save_media(variant, "tok", image_path, image_bytes, resp)
       IN  ev' = [fn |-> "save_media", variant |-> variant, token |-> "tok",
                  image_path |-> image_path, image_bytes |-> image_bytes, resp |-> resp,
                  posts |-> res.posts, out |-> res.out]
  /\ UNCHANGED <<config, req, h, fs, ctr>>

NextWrappers == CallChangeStatus \/ CallSaveMedia

SpecWrappers == InitConc /\ [][NextWrappers]_vars

\* ------------------------------------------- library functions: RowID
\* last_error after one candidate gave no RowID
ErrorOf(url, answer) ==
  IF answer.raises THEN <<url, "Exception">>
  ELSE IF answer.status_code >= 400 THEN <<url, CodeText(answer.status_code)>>
  ELSE <<"No RowID found in action or hOriginalROWID for URL", url>>

\* a variant that keeps the first error recorded (sensitivity of C23)
RecordedFirst(last_error, error) == IF last_error = None THEN error ELSE last_error
\* last_error = ...: each candidate's error replaces the one before
Recorded(last_error, error) == error

\* get_rowid_for_ro(token, ro_number): the loop over the candidates from
\* candidate i on; answers[i] is what the vendor gives for candidate i.
\* gets lists the pages requested.
RECURSIVE TryCandidates(_, _, _, _, _)
TryCandidates(i, gets, last_error, ro_number, answers) ==
  IF i > Len(CandidatePages)
  THEN [gets |-> gets,
        out |-> Raised("RuntimeError",
                       <<"Unable to determine RowID for RONumber", ro_number, "Last error">>
                       \o last_error)]
  ELSE LET url == CandidatePages[i]
           a == answers[i]
           asked == Append(gets, url)
       IN  IF ~a.raises /\ a.status_code < 400 /\ RowidIn(a.page) # None
           THEN [gets |-> asked, out |-> Returned(RowidIn(a.page))]
           ELSE TryCandidates(i + 1, asked, Recorded(last_error, ErrorOf(url, a)),
                              ro_number, answers)

get_rowid_for_ro(token, ro_number, answers) ==
  TryCandidates(1, <<>>, None, ro_number, answers)

CallGetRowidForRo ==
  /\ ev.fn = "none"
  /\ \E answers \in [1..Len(CandidatePages) -> PageAnswers] :
       LET res == get_rowid_for_ro("tok", "12345", answers)
       IN  ev' = [fn |-> "get_rowid_for_ro", token |-> "tok", ro_number |-> "12345",
                  answers |-> answers, gets |-> res.gets, out |-> res.out]
  /\ UNCHANGED <<config, req, h, fs, ctr>>

\* GET /dvi/get_rowid (bridge): the whole handler; ro_number is the query
\* argument, login whether dvi_login returned a token, answer what the
\* vendor gives for EditChecklist.aspx.  The result is the vendor calls
\* made, the HTTP status and the JSON body (rowid None where it has none).
RowidQueries == {None, <<>>, <<"1", "2", "3", "4", "5">>}
RowidBody(ok, rowid, error) == [ok |-> ok, rowid |-> rowid, error |-> error]
dvi_get_rowid(ro_number, login, answer) ==
  IF Falsy(ro_number)
  THEN [calls |-> <<>>, http |-> 400, body |-> RowidBody(FALSE, None, "Missing ro_number")]
  ELSE IF ~login
  THEN [calls |-> <<"POST /login">>, http |-> 500,
        body |-> RowidBody(FALSE, None, "DVI login failed")]
  ELSE LET calls == <<"POST /login", "GET EditChecklist.aspx?RONumber">>
       IN  IF answer.raises
           THEN [calls |-> calls, http |-> 500, body |-> RowidBody(FALSE, None, "Exception")]
           ELSE IF answer.status_code # 200
           THEN [calls |-> calls, http |-> 500,
                 body |-> RowidBody(FALSE, None, "Checklist page returned HTTP")]
           ELSE IF ~answer.page.hidden.tag
           THEN [calls |-> calls, http |-> 500,
                 body |-> RowidBody(FALSE, None, "RowID not found in returned HTML")]
           ELSE [calls |-> calls, http |-> 200,
                 body |-> RowidBody(TRUE, answer.page.hidden.value, "")]

CallGetRowidEndpoint ==
  /\ ev.fn = "none"
  /\ \E ro_number \in RowidQueries, login \in BOOLEAN, answer \in PageAnswers :
       LET res == dvi_get_rowid(ro_number, login, answer)
       IN  ev' = [fn |-> "dvi_get_rowid", ro_number |-> ro_number, login |-> login,
                  answer |-> answer, calls |-> res.calls, http |-> res.http,
                  body |-> res.body]
  /\ UNCHANGED <<config, req, h, fs, ctr>>

NextRowid == CallGetRowidForRo \/ CallGetRowidEndpoint

SpecRowid == InitConc /\ [][NextRowid]_vars

\* ------------------------------------------------------------------ claims
Calls(r) == h[r].calls
IsDone(r) == h[r].pc = "done"
DoneOk(r) == IsDone(r) /\ h[r].resp.kind = "json" /\ h[r].resp.ok
IsInspection(r) == req[r].endpoint = "iso_inspection"
CallIdx(r) == 1..Len(Calls(r))

\* the identifier-lookup calls that may follow the login
LookupOps == {"GetRODetail", "GetCheckListItemsV2",
              "GET Checklist.aspx", "GET EditChecklist.aspx?RONumber"}

\* a request's vendor calls as <<operation, argument>> pairs, lookups left out
Core(r) ==
  LET keep == SelectSeq(Calls(r), LAMBDA c : c.op \notin LookupOps)
  IN  [i \in 1..Len(keep) |-> <<keep[i].op, keep[i].arg>>]

\* the end-to-end scenario: ro_number and comments given, no image, no
\* condition field, both flags left at their default, and the run succeeded
Scenario(r) ==
  /\ IsInspection(r) /\ DoneOk(r)
  /\ req[r].ro = "12345" /\ req[r].comments # "" /\ req[r].condition = "omitted"
  /\ req[r].files = <<>> /\ req[r].paths = <<>> /\ req[r].b64s = <<>>
  /\ req[r].move_to_start = "omitted" /\ req[r].move_to_complete = "omitted"

SpecRank(c) ==
  CASE c.op = "login" -> 1
    [] c.op \in LookupOps -> 2
    [] c.op \in {"SaveMedia", "SaveChecklistImageCloud"} -> 3
    [] c.op \in {"SaveChecklist", "GET EditChecklist.aspx?rowid", "POST EditChecklist.aspx"} -> 4
    [] c.op = "ChangeStatus" /\ c.arg = "3" -> 5
    [] OTHER -> 6

\* position of a vendor call in dvi_bridge's order: authenticate, resolve
\* RowID, status change (start), write checklist text, upload/attach images,
\* status change (complete)
BridgeRank(c) ==
  CASE c.op = "login" -> 1
    [] c.op \in LookupOps -> 2
    [] c.op = "ChangeStatus" /\ c.arg = "3" -> 3
    [] c.op \in {"GET EditChecklist.aspx?rowid", "POST EditChecklist.aspx"} -> 4
    [] c.op \in {"SaveMedia", "SaveChecklistImageCloud"} -> 5
    [] OTHER -> 6

C3_PartialFailure ==
  \A r \in Reqs :
    (IsInspection(r) /\ DoneOk(r)) =>
      /\ h[r].resp.has_upload_errors
      /\ Len(h[r].blobs) + Len(h[r].upload_errors) = Len(h[r].image_paths)
      /\ \A i \in 1..Len(h[r].upload_errors) :
           \E j \in 1..Len(h[r].image_paths) : h[r].image_paths[j] = h[r].upload_errors[i]

\* C4 as the spec states it: every request ends in a JSON response built by
\* the handler; no exception leaves a view function.
C4_NoEscape ==
  \A r \in Reqs : IsDone(r) => h[r].resp.kind = "json"

\* C5 as the spec states it: once an inspection request has completed, none
\* of the temp files it created for multipart or base64 images exists.
C5_TempFilesGone ==
  \A r \in Reqs : (IsInspection(r) /\ IsDone(r)) => h[r].created \cap fs = {}

\* the request lacks its required ro_number field (or, for upload_image, its file part)
MissingField(r) ==
  \/ req[r].endpoint \in StatusEndpoints \cup {"iso_inspection"}
       /\ req[r].body = "object" /\ req[r].ro = "absent"
  \/ req[r].endpoint = "upload_image" /\ req[r].upload = "nofile"

\* C6 as the spec states it: a JSON response carries ok; a missing required
\* field is answered {ok:false} with 400, a failed downstream step with 500.
C6_StatusCodes ==
  \A r \in Reqs :
    (IsDone(r) /\ h[r].resp.kind = "json") =>
      /\ MissingField(r) => (~h[r].resp.ok /\ h[r].resp.http = 400)
      /\ (Calls(r) # <<>> /\ ~h[r].resp.ok) => h[r].resp.http = 500
      /\ h[r].resp.ok => h[r].resp.http = 200

LoginIdx(r) == {i \in CallIdx(r) : Calls(r)[i].op = "login"}

\* C7 as the spec states it: every request that is not rejected for missing
\* input performs exactly one login, before any other vendor call.
C7_Original ==
  \A r \in Reqs :
    (IsDone(r) /\ ~MissingField(r)) => LoginIdx(r) = {1}

\* C7 (amended): a request performs at most one login; a request that issues
\* any vendor call issues the login first and every later call of it carries
\* the token that login returned; every status-only or inspection request
\* answered ok:true performed exactly one login; and no token obtained by
\* one request is carried by a call of another.  (/health and
\* /dvi/upload_image issue no login and no vendor call.)
C7_TokenDiscipline ==
  /\ \A r \in Reqs :
       /\ LoginIdx(r) \subseteq {1}
       /\ Calls(r) # <<>> => LoginIdx(r) = {1}
       /\ \A i \in CallIdx(r) :
            i > 1 => (Calls(r)[1].ok /\ Calls(r)[1].tok # 0 /\ Calls(r)[i].tok = Calls(r)[1].tok)
       /\ (DoneOk(r) /\ req[r].endpoint \in StatusEndpoints \cup {"iso_inspection"})
            => LoginIdx(r) = {1}
       /\ req[r].endpoint \in {"health", "upload_image"} => Calls(r) = <<>>
  /\ \A r1, r2 \in Reqs :
       r1 # r2 => \A i \in CallIdx(r1), j \in CallIdx(r2) :
                    Calls(r1)[i].tok # 0 => Calls(r1)[i].tok # Calls(r2)[j].tok

\* C7 witness: two requests, one of them an inspection, each answered
\* ok:true after a login and further vendor calls
C7_Witness ==
  \E r1, r2 \in Reqs :
    /\ r1 # r2 /\ DoneOk(r1) /\ DoneOk(r2)
    /\ IsInspection(r1) /\ Len(Calls(r1)) > 2 /\ Len(Calls(r2)) = 2

QcOk(r) == req[r].endpoint = "qc_complete" /\ DoneOk(r)

\* C8: two /dvi/qc_complete requests for the same RO number, both answered
\* ok:true, each issued its own login followed by its own status-change
\* call with status "8" carrying its own token.
C8_TwoQcComplete ==
  \A r1, r2 \in Reqs :
    (r1 # r2 /\ QcOk(r1) /\ QcOk(r2) /\ req[r1].ro = req[r2].ro) =>
      /\ \A r \in {r1, r2} :
           /\ Len(Calls(r)) = 2
           /\ Calls(r)[1].op = "login" /\ Calls(r)[1].ok
           /\ Calls(r)[2] = Call("ChangeStatus", Calls(r)[1].tok, req[r].ro, "8", 0, TRUE)
      /\ Calls(r1)[1].tok # Calls(r2)[1].tok

\* C8 witness: two qc_complete requests for the same RO have been answered ok
C8_Witness ==
  \E r1, r2 \in Reqs :
    r1 # r2 /\ QcOk(r1) /\ QcOk(r2) /\ req[r1].ro = req[r2].ro

Sent(r, code) ==
  \E i \in CallIdx(r) : Calls(r)[i].op = "ChangeStatus" /\ Calls(r)[i].arg = code

\* a false flag value: JSON false or the string "false"
FalseValue(v) == v \in {"json_false", "str_false"}

\* C10 as the spec states it: in an inspection answered ok:true, status "3"
\* was sent iff move_to_start is not a false value and status "4" iff
\* move_to_complete is not a false value, each flag defaulting to true.
C10_FlagsControl ==
  \A r \in Reqs :
    (IsInspection(r) /\ DoneOk(r)) =>
      /\ Sent(r, "3") <=> ~FalseValue(req[r].move_to_start)
      /\ Sent(r, "4") <=> ~FalseValue(req[r].move_to_complete)


\* the inspection requests whose image list contains path p
Listing(p) ==
  {q \in Reqs : IsInspection(q) /\ \E i \in 1..Len(h[q].image_paths) : h[q].image_paths[i] = p}

\* C11: the temp path returned by a successful /dvi/upload_image names a
\* file that exists until an inspection request lists it in image_paths;
\* and an inspection that is the only one to list it finds the file present
\* when it reaches the upload of that image.
C11_StagedFileKept ==
  \A u \in Reqs :
    (req[u].endpoint = "upload_image" /\ DoneOk(u)) =>
      /\ Cardinality(h[u].created) = 1
      /\ \A p \in h[u].created :
           /\ Listing(p) = {} => p \in fs
           /\ \A q \in Listing(p) :
                (Listing(p) = {q} /\ ~IsDone(q)) => p \in fs

\* C11 witness: an inspection listed a staged file, uploaded and attached it
\* and was answered ok
C11_Witness ==
  \E u, q \in Reqs :
    /\ req[u].endpoint = "upload_image" /\ DoneOk(u)
    /\ IsInspection(q) /\ DoneOk(q) /\ Len(h[q].blobs) = 1
    /\ \E p \in h[u].created : Listing(p) = {q}


\* the upload and attach calls of request r, in the order they were issued
ImageCalls(r) ==
  SelectSeq(Calls(r), LAMBDA c : c.op \in {"SaveMedia", "SaveChecklistImageCloud"})

\* position in the image list of the image whose attach put blob b in blobs
ImageOfBlob(r, b) ==
  LET att == SelectSeq(Calls(r), LAMBDA c : c.op = "SaveChecklistImageCloud" /\ c.blob = b /\ c.ok)
  IN  IF att = <<>> THEN 0 ELSE att[1].img

\* C12: within one inspection request the images are processed one at a
\* time in list order: no image has more than one upload call, an attach
\* call directly follows the successful upload of the same image, the next
\* upload is for a later image of the list, and the blobs of the response
\* are in the order of the images they were uploaded from.
C12_OneAtATime ==
  \A r \in Reqs :
    IsInspection(r) =>
      LET ic == ImageCalls(r)
      IN  /\ \A i \in 1..Len(ic) :
               /\ ic[i].img \in 1..Len(h[r].image_paths)
               /\ ic[i].op = "SaveChecklistImageCloud" =>
                    /\ i > 1 /\ ic[i - 1].op = "SaveMedia" /\ ic[i - 1].ok
                    /\ ic[i - 1].img = ic[i].img /\ ic[i - 1].blob = ic[i].blob
               /\ (ic[i].op = "SaveMedia" /\ i > 1) => ic[i - 1].img < ic[i].img
               /\ (ic[i].op = "SaveMedia" /\ ic[i].ok /\ (i < Len(ic) \/ IsDone(r))) =>
                    (i < Len(ic) /\ ic[i + 1].op = "SaveChecklistImageCloud")
          /\ \A j1, j2 \in 1..Len(h[r].blobs) :
               j1 < j2 => /\ ImageOfBlob(r, h[r].blobs[j1]) > 0
                          /\ ImageOfBlob(r, h[r].blobs[j1]) < ImageOfBlob(r, h[r].blobs[j2])

\* C12 witness: a request with two images had both uploaded and attached
C12_Witness ==
  \E r \in Reqs :
    /\ IsInspection(r) /\ DoneOk(r) /\ Len(h[r].blobs) = 2
    /\ Len(ImageCalls(r)) = 4


\* the attach calls, of any request, that reference blob b: <<request, index>>
AttachesOf(b) ==
  {<<q, i>> \in Reqs \X (1..4 * MaxImages + 8) :
     /\ i <= Len(Calls(q))
     /\ Calls(q)[i].op = "SaveChecklistImageCloud" /\ Calls(q)[i].blob = b}

\* C13: every blob a successful upload returned is referenced by exactly
\* one attach call, issued by the same request after the upload (none yet
\* while the handler stands between the upload and the attach), and by no
\* other attach call of any request; every entry of blobs had a successful
\* upload and a successful attach in its request.
C13_BlobUsedOnce ==
  \A r \in Reqs :
    /\ \A i \in CallIdx(r) :
         (Calls(r)[i].op = "SaveMedia" /\ Calls(r)[i].ok) =>
           LET b == Calls(r)[i].blob
           IN  /\ b # 0
               /\ IF h[r].pc = "attach" /\ h[r].blob = b
                  THEN AttachesOf(b) = {}
                  ELSE AttachesOf(b) = {<<r, i + 1>>}
    /\ \A j \in 1..Len(h[r].blobs) :
         LET b == h[r].blobs[j]
         IN  /\ \E i \in CallIdx(r) :
                  Calls(r)[i].op = "SaveMedia" /\ Calls(r)[i].ok /\ Calls(r)[i].blob = b
             /\ \E i \in CallIdx(r) :
                  Calls(r)[i].op = "SaveChecklistImageCloud" /\ Calls(r)[i].ok
                  /\ Calls(r)[i].blob = b
             /\ \A j2 \in 1..Len(h[r].blobs) : j2 # j => h[r].blobs[j2] # b

\* C13 witness: a request uploaded two images and attached both; another
\* upload's blob was attached too, or its attach failed
C13_Witness ==
  \E r \in Reqs :
    /\ IsInspection(r) /\ IsDone(r)
    /\ Len(SelectSeq(Calls(r), LAMBDA c : c.op = "SaveMedia" /\ c.ok)) = 2
    /\ Len(h[r].blobs) >= 1


\* the texts of an RO detail the spec names: Requests, every labor
\* Description, every checklist Name
TextsOf(d) ==
  {d.Requests} \cup {d.LaborList[i].Description : i \in 1..Len(d.LaborList)}
               \cup {d.CheckLists[i].Name : i \in 1..Len(d.CheckLists)}

IsDetect == ev.fn \in {"ro_has_oil_service", "ro_has_wheel_work"}
KeywordsOf(fn) == IF fn = "ro_has_oil_service" THEN OilKeywords ELSE WheelKeywords
SignoffOf(fn) == IF fn = "ro_has_oil_service" THEN OilSignoff ELSE WheelSignoff

\* C14 as the spec states it: a detector returns true iff a keyword of its
\* list occurs, case-insensitively, in Requests, a labor Description or a
\* checklist Name.
C14_Original ==
  IsDetect =>
    (ev.out <=> \E t \in TextsOf(ev.arg) : AnyIn(KeywordsOf(ev.fn), Lower(OrEmpty(t))))

\* C14 (amended): a detector returns true iff a keyword of its list occurs,
\* case-insensitively, in Requests or in a labor Description, or the
\* detector's sign-off phrase ("oil change signoff", "wheel torque signoff")
\* occurs, case-insensitively, in a checklist Name; an RO detail without
\* texts gives false.
C14_Detectors ==
  IsDetect =>
    /\ ev.out <=>
         \/ \E t \in {ev.arg.Requests}
                     \cup {ev.arg.LaborList[i].Description : i \in 1..Len(ev.arg.LaborList)} :
              AnyIn(KeywordsOf(ev.fn), Lower(OrEmpty(t)))
         \/ \E i \in 1..Len(ev.arg.CheckLists) :
              Contains(SignoffOf(ev.fn), Lower(OrEmpty(ev.arg.CheckLists[i].Name)))
    /\ (ev.arg.LaborList = <<>> /\ ev.arg.CheckLists = <<>> /\ ev.arg.Requests \in {None, <<>>})
         => ~ev.out

\* C14 witness: a detector answered true because of a checklist's sign-off name alone
C14_Witness ==
  /\ ev.fn = "ro_has_wheel_work" /\ ev.out
  /\ ev.arg.Requests = None /\ ev.arg.LaborList = <<>> /\ Len(ev.arg.CheckLists) = 1


\* the lookup ran its dynamic path as far as the checklist items
ItemLookupRan ==
  /\ ev.fn = "resolve_iso_labor_and_item"
  /\ ~(ev.cfg.ISO_LABOR_ID # "None" /\ ev.cfg.ISO_ITEM_ID # "None")
  /\ ~Falsy(find_labor_id_by_description(ev.ro_detail, IsoTarget))

\* positions of the items whose Title contains "iso", case-insensitively
IsoTitled(items) ==
  {i \in 1..Len(items) : Contains(IsoWord, Lower(OrEmpty(items[i].Title)))}

GotDetail(r) ==
  \E i \in CallIdx(r) : Calls(r)[i].op = "GetRODetail" /\ Calls(r)[i].ok

\* no labor Description of the RO detail contains the keyword "ISO"
NoIsoLabor(d) ==
  \A i \in 1..Len(d.LaborList) :
    ~Contains(Lower(IsoTarget), Lower(OrEmpty(d.LaborList[i].Description)))

\* C16: when the RO detail fetched for an inspection has no labor whose
\* Description contains the keyword, the request ends right after that
\* call with an ok:false JSON response (500) and issues no attach,
\* checklist or status call; and no such call of dvi_server_final is ever
\* issued while its labor or item identifier is empty.
C16_LookupFails ==
  \A r \in Reqs :
    (IsInspection(r) /\ req[r].variant = "final") =>
      /\ (GotDetail(r) /\ NoIsoLabor(h[r].ro_detail)) =>
           /\ IsDone(r) /\ h[r].resp.kind = "json" /\ ~h[r].resp.ok /\ h[r].resp.http = 500
           /\ h[r].resp.error = "Could not find ISO labor"
           /\ Len(Calls(r)) = 2 /\ Calls(r)[2].op = "GetRODetail"
      /\ (\E i \in CallIdx(r) :
            Calls(r)[i].op \in {"SaveMedia", "SaveChecklistImageCloud", "SaveChecklist",
                                "ChangeStatus"})
           => (h[r].labor_id # "" /\ h[r].item_id # "")

\* C16 witness: the RO detail had one labor, "Oil change", and the request
\* was answered with the lookup failure
C16_Witness ==
  \E r \in Reqs :
    /\ IsInspection(r) /\ GotDetail(r) /\ IsDone(r)
    /\ Len(h[r].ro_detail.LaborList) = 1 /\ NoIsoLabor(h[r].ro_detail)
    /\ h[r].resp.http = 500


IsChangeStatus == ev.fn = "change_status"

\* C17: change_status issues exactly one POST, carrying the RO number, the
\* status and the type (the default "R" when none is given), and when the
\* vendor answers with a 2xx status it returns the response body unchanged.
C17_ChangeStatus ==
  IsChangeStatus =>
    /\ Len(ev.posts) = 1
    /\ ev.posts[1].body = [RONumber |-> ev.ro_number, Status |-> ev.status,
                           Type |-> IF ev.ro_type = "omitted" THEN "R" ELSE ev.ro_type]
    /\ ev.resp.status_code \in 200..299 => (ev.out.ok /\ ev.out.value = ev.resp.text)

\* C17 witness: status "8" with the default type; the vendor answered 200
\* with a quoted body, which came back as it was
C17_Witness ==
  /\ IsChangeStatus /\ ev.status = "8" /\ ev.ro_type = "omitted"
  /\ ev.resp.status_code = 200 /\ ev.resp.text = "\"OK\"" /\ ev.out.ok

\* text x is part of message m (the empty text is part of every message)
Includes(m, x) == x = "" \/ \E i \in 1..Len(m) : m[i] = x

\* C18 as the spec states it: on a non-success HTTP status change_status
\* fails with an error whose message includes the status code and the
\* response body.
C18_ErrorMessage ==
  (IsChangeStatus /\ ev.resp.status_code \notin 200..299) =>
    /\ ~ev.out.ok
    /\ Includes(ev.out.message, CodeText(ev.resp.status_code))
    /\ Includes(ev.out.message, ev.resp.text)


\* C19: a request issues at most one login call (no retry); a successful
\* login hands its token to the handler; after a login that the vendor
\* answered with an error status or without a Token field the request
\* issues no further vendor call and ends with an ok:false JSON response.
C19_LoginOnce ==
  \A r \in Reqs :
    /\ Cardinality(LoginIdx(r)) <= 1
    /\ \A i \in LoginIdx(r) :
         IF Calls(r)[i].ok
         THEN Calls(r)[i].tok # 0 /\ h[r].token = Calls(r)[i].tok
         ELSE /\ Len(Calls(r)) = i
              /\ IsDone(r) /\ h[r].resp.kind = "json" /\ ~h[r].resp.ok
              /\ h[r].resp.http = 500
              /\ h[r].resp.error \in {"HTTPError login", "KeyError 'Token'"}

\* C19 witness: the login response had no Token field and the request
\* ended with the failure response
C19_Witness ==
  \E r \in Reqs :
    /\ IsDone(r) /\ Len(Calls(r)) = 1 /\ ~Calls(r)[1].ok
    /\ h[r].resp.error = "KeyError 'Token'"


IsSaveMedia == ev.fn = "save_media"

\* C20: a save_media call that supplies neither a file path nor byte
\* content fails and issues no upload (dvi_media.save_media fails with its
\* input error, a ValueError); a call never issues more than one upload,
\* and an upload carries the file's content when a path is given and the
\* bytes otherwise.
C20_SaveMediaInput ==
  IsSaveMedia =>
    /\ (NotGiven(ev.image_path) /\ NotGiven(ev.image_bytes)) =>
         /\ ~ev.out.ok /\ ev.posts = <<>>
         /\ ev.variant = "final" => ev.out.error = "ValueError"
    /\ Len(ev.posts) <= 1
    /\ ev.posts # <<>> =>
         ev.posts[1].body = IF NotGiven(ev.image_path) THEN ev.image_bytes ELSE "file content"

\* C20 witness: dvi_media.save_media was called with image_path None and
\* empty bytes and raised its input error
C20_Witness ==
  /\ IsSaveMedia /\ ev.variant = "final"
  /\ ev.image_path = "None" /\ ev.image_bytes = "" /\ ev.out.error = "ValueError"


\* save_media was given raw bytes (no path) and the vendor answered 2xx
BytesUploaded ==
  /\ IsSaveMedia /\ ev.variant = "final"
  /\ NotGiven(ev.image_path) /\ ~NotGiven(ev.image_bytes)
  /\ ev.resp.status_code \in 200..299

NoSurroundingQuotes(s) == s = <<>> \/ (s[1] # Quote /\ s[Len(s)] # Quote)
JpgSuffix == <<".", "j", "p", "g">>
EndsWith(s, suffix) ==
  Len(s) >= Len(suffix) /\ SubSeq(s, Len(s) - Len(suffix) + 1, Len(s)) = suffix

\* C21 as the spec states it: given raw bytes and a successful vendor
\* response, the returned blob identifier has no surrounding quote
\* characters and ends with ".jpg".
C21_Original ==
  (BytesUploaded /\ ev.out.ok) =>
    (NoSurroundingQuotes(ev.out.value) /\ EndsWith(ev.out.value, JpgSuffix))

\* C21 (amended): given raw bytes and a 2xx vendor response whose body is
\* a JSON string, save_media returns that string without its leading and
\* trailing quote characters, the characters between them unchanged; the
\* result ends with ".jpg" exactly when the vendor's string, quotes aside,
\* does.  A body that is not a JSON string makes save_media fail.
C21_BlobName ==
  BytesUploaded =>
    /\ ev.out.ok <=> IsJsonString(ev.resp.text)
    /\ ev.out.ok =>
         LET sent == JsonString(ev.resp.text)
         IN  /\ NoSurroundingQuotes(ev.out.value)
             /\ \E i \in 0..Len(sent) :
                  /\ SubSeq(sent, i + 1, i + Len(ev.out.value)) = ev.out.value
                  /\ \A j \in (1..i) \cup ((i + Len(ev.out.value) + 1)..Len(sent)) :
                       sent[j] = Quote
             /\ EndsWith(ev.out.value, JpgSuffix) <=>
                  \E k \in 0..Len(sent) :
                    /\ EndsWith(SubSeq(sent, 1, Len(sent) - k), JpgSuffix)
                    /\ \A j \in (Len(sent) - k + 1)..Len(sent) : sent[j] = Quote

\* C21 witness: the vendor's string itself carried quote characters around
\* a name ending in .jpg, and the name came back without them
C21_Witness ==
  /\ BytesUploaded /\ ev.out.ok
  /\ ev.out.value = <<"a", "1", ".", "j", "p", "g">>
  /\ JsonString(ev.resp.text)[1] = Quote


IsGetRowidForRo == ev.fn = "get_rowid_for_ro"
\* the page came back with a status below 400
Usable(a) == ~a.raises /\ a.status_code < 400
\* the identifiers the form action carries as its ID= or rowid= parameter
ActionIds(form) ==
  {v \in {<<"6", "8">>, <<"c", "d">>} :
     \E name \in {IdParam, RowidParam} : form # None /\ Contains(name \o v, form)}
HasHiddenValue(a) == a.page.hidden.tag /\ a.page.hidden.value \notin {None, <<>>}
\* the candidate's answer holds an identifier
Yields(a) == Usable(a) /\ (ActionIds(a.page.form) # {} \/ HasHiddenValue(a))
FirstYielding(answers) ==
  IF \E i \in DOMAIN answers : Yields(answers[i])
  THEN CHOOSE i \in DOMAIN answers : Yields(answers[i]) /\ \A j \in 1..(i - 1) : ~Yields(answers[j])
  ELSE 0

\* C22: get_rowid_for_ro requests Checklist.aspx, then EditChecklist.aspx,
\* in that order and stops at the first page that holds an identifier: no
\* later candidate is requested.  From that page it returns the identifier
\* of the form action's query parameter when there is one, and the hidden
\* input's value only otherwise.
C22_CandidateOrder ==
  IsGetRowidForRo =>
    LET n == FirstYielding(ev.answers)
    IN  /\ ev.gets = SubSeq(CandidatePages, 1, IF n = 0 THEN Len(CandidatePages) ELSE n)
        /\ ev.out.ok <=> n # 0
        /\ n # 0 =>
             LET a == ev.answers[n]
             IN  IF ActionIds(a.page.form) # {}
                 THEN ev.out.value \in ActionIds(a.page.form)
                 ELSE ev.out.value = a.page.hidden.value

\* C22 witness: the first page held an identifier in its form action and
\* another in its hidden input; the form action's came back and the second
\* page, which held one too, was never requested
C22_Witness ==
  /\ IsGetRowidForRo
  /\ ev.answers[1].status_code = 200
  /\ ev.answers[1].page.form = <<"c", "?", "I", "D", "=", "6", "8", "&", "T", "y", "p", "e", "=", "R">>
  /\ ev.answers[1].page.hidden.value = <<"H", "1">>
  /\ Yields(ev.answers[2])
  /\ ev.gets = <<"GET Checklist.aspx">>
  /\ ev.out.ok /\ ev.out.value = <<"6", "8">>

\* the error get_rowid_for_ro records for a candidate that gave no identifier
ExpectedError(url, a) ==
  IF a.raises THEN <<url, "Exception">>
  ELSE IF a.status_code >= 400 THEN <<url, CodeText(a.status_code)>>
  ELSE <<"No RowID found in action or hOriginalROWID for URL", url>>

\* C23: when no candidate page yields an identifier (error status,
\* exception, or a page with neither a form-action identifier nor a hidden
\* value), get_rowid_for_ro fails with a RuntimeError whose message ends
\* with the error recorded for the last candidate tried, EditChecklist.aspx;
\* and it never returns an empty identifier.
C23_LastError ==
  IsGetRowidForRo =>
    /\ (\A i \in DOMAIN ev.answers : ~Yields(ev.answers[i])) =>
         LET last == Len(CandidatePages)
             e == ExpectedError(CandidatePages[last], ev.answers[last])
         IN  /\ ~ev.out.ok /\ ev.out.error = "RuntimeError"
             /\ Len(ev.gets) = last
             /\ SubSeq(ev.out.message, Len(ev.out.message) - Len(e) + 1,
                       Len(ev.out.message)) = e
    /\ ev.out.ok => ev.out.value \notin {None, <<>>}

\* C23 witness: Checklist.aspx answered 404 and EditChecklist.aspx a page
\* whose form action has an empty ID and whose hidden input is empty
C23_Witness ==
  /\ IsGetRowidForRo /\ ~ev.out.ok
  /\ ev.answers[1].status_code = 404
  /\ ev.answers[2].status_code = 200
  /\ ev.answers[2].page.form = <<"c", "?", "I", "D", "=">>
  /\ ev.answers[2].page.hidden = [tag |-> TRUE, value |-> <<>>]

IsGetRowidEndpoint == ev.fn = "dvi_get_rowid"

\* C25: whenever GET /dvi/get_rowid answers ok:true its rowid field is a
\* non-empty identifier scraped from the vendor page, and a page without an
\* identifier gives ok:false.
C25_RowidNonEmpty ==
  IsGetRowidEndpoint =>
    /\ ev.body.ok => ev.body.rowid \notin {None, <<>>}
    /\ (ev.calls # <<>> /\ ~HasHiddenValue(ev.answer)) => ~ev.body.ok


IsFindLabor == ev.fn = "find_labor_id_by_description"
\* the labor's Description contains the keyword, case-insensitively
Describes(labor, target) == Contains(Lower(target), Lower(labor.Description))
HasId(labor) == labor.ID \notin {None, <<>>}

\* C24 as the spec states it: find_labor_id_by_description returns the
\* identifier of the first labor, in LaborList order, whose Description
\* contains the keyword case-insensitively, and None only when no
\* Description contains it.
C24_Original ==
  IsFindLabor =>
    LET labors == ev.ro_detail.LaborList
        hits == {i \in 1..Len(labors) : Describes(labors[i], ev.target)}
    IN  /\ hits # {} => ev.out = labors[CHOOSE i \in hits : \A j \in hits : i <= j].ID
        /\ ev.out = None => hits = {}

\* C24 (amended): find_labor_id_by_description returns the identifier of
\* the first labor, in LaborList order, whose Description contains the
\* keyword case-insensitively and whose ID is set; a matching labor without
\* an ID is passed over.  It returns None exactly when no labor both
\* matches and has an ID.
C24_FirstLaborWithId ==
  IsFindLabor =>
    LET labors == ev.ro_detail.LaborList
        hits == {i \in 1..Len(labors) : Describes(labors[i], ev.target) /\ HasId(labors[i])}
    IN  /\ hits # {} => ev.out = labors[CHOOSE i \in hits : \A j \in hits : i <= j].ID
        /\ hits = {} <=> ev.out = None

\* C24 witness: the first labor matches "ISO" but has no ID, the second
\* matches and has one, which is returned
C24_Witness ==
  /\ IsFindLabor /\ ev.target = IsoTarget
  /\ Len(ev.ro_detail.LaborList) = 2
  /\ Describes(ev.ro_detail.LaborList[1], IsoTarget) /\ ~HasId(ev.ro_detail.LaborList[1])
  /\ Describes(ev.ro_detail.LaborList[2], IsoTarget)
  /\ ev.out = <<"L", "1">>


BothConfigured == config.ISO_LABOR_ID # "None" /\ config.ISO_ITEM_ID # "None"
DetailOps == {"GetRODetail", "GetCheckListItemsV2"}
\* a final inspection request whose login succeeded
Resolving(r) == IsInspection(r) /\ req[r].variant = "final" /\ h[r].token # 0

\* C26: with ISO_LABOR_ID and ISO_ITEM_ID both configured, the inspection
\* works with exactly these two identifiers and makes no RO-detail or
\* checklist-item call; with either one unset the dynamic lookup runs
\* instead: the call after the login is the RO-detail call, and the
\* identifiers the request works with never come from config.py.
C26_StaticIds ==
  \A r \in Reqs :
    Resolving(r) =>
      IF BothConfigured
      THEN /\ h[r].labor_id = config.ISO_LABOR_ID /\ h[r].item_id = config.ISO_ITEM_ID
           /\ \A i \in CallIdx(r) : Calls(r)[i].op \notin DetailOps
      ELSE /\ Len(Calls(r)) >= 2 => Calls(r)[2].op = "GetRODetail"
           /\ IsDone(r) => Len(Calls(r)) >= 2
           /\ h[r].labor_id \notin {config.ISO_LABOR_ID} \ {""}
           /\ h[r].item_id \notin {config.ISO_ITEM_ID} \ {""}

\* C26 witness: both identifiers configured, the inspection went through
\* its checklist write and answered ok
C26_Witness ==
  /\ BothConfigured
  /\ Resolving(1) /\ DoneOk(1)
  /\ \E i \in CallIdx(1) : Calls(1)[i].op = "SaveChecklist"
  /\ \A i \in CallIdx(1) : Calls(1)[i].op \notin DetailOps


\* the vendor calls whose failure ends an inspection: the login, the
\* identifier lookups (for the RowID, the last candidate page), the
\* checklist-text write and the status changes
AbortingOps ==
  {"login", "GetRODetail", "GetCheckListItemsV2", CandidatePages[Len(CandidatePages)],
   "SaveChecklist", "GET EditChecklist.aspx?rowid", "POST EditChecklist.aspx", "ChangeStatus"}
\* failures of the identifier resolution on an answer the vendor gave
ResolutionErrors ==
  {"Could not find ISO labor", "No checklist items returned",
   "Could not determine ISO item ID", "Unable to determine RowID"}
StatusSentAfter(r, i) ==
  \E j \in CallIdx(r) : j > i /\ Calls(r)[j].op = "ChangeStatus"

\* C27: in an inspection request, a failed login, identifier resolution,
\* checklist-text write or status change is the request's last vendor
\* call and the response is ok:false; so status "4" is never sent after a
\* failed status "3", and no status change after a failed checklist-text
\* write.
C27_FailureStops ==
  \A r \in Reqs :
    IsInspection(r) =>
      /\ \A i \in CallIdx(r) :
           (Calls(r)[i].op \in AbortingOps /\ ~Calls(r)[i].ok) =>
             /\ i = Len(Calls(r)) /\ ~StatusSentAfter(r, i)
             /\ IsDone(r) /\ h[r].resp.kind = "json" /\ ~h[r].resp.ok
      /\ (IsDone(r) /\ h[r].resp.error \in ResolutionErrors) =>
           /\ ~h[r].resp.ok
           /\ \A i \in CallIdx(r) : Calls(r)[i].op \in {"login"} \cup LookupOps
      /\ (IsDone(r) /\ h[r].resp.error = "Missing required hidden field") =>
           /\ ~h[r].resp.ok
           /\ Calls(r)[Len(Calls(r))].op = "GET EditChecklist.aspx?rowid"

\* C27 witness: both flags on, the checklist text was written, status "3"
\* failed: it is the last call, no status "4" was sent, the answer is
\* ok:false
C27_Witness ==
  /\ IsInspection(1) /\ IsDone(1) /\ ~h[1].resp.ok
  /\ h[1].move_to_start /\ h[1].move_to_complete
  /\ \E i \in CallIdx(1) : Calls(1)[i].op = "SaveChecklist" /\ Calls(1)[i].ok
  /\ LET c == Calls(1)[Len(Calls(1))]
     IN  c.op = "ChangeStatus" /\ c.arg = "3" /\ ~c.ok
  /\ \A i \in CallIdx(1) : ~(Calls(1)[i].op = "ChangeStatus" /\ Calls(1)[i].arg = "4")


\* the request was answered with HTTP 400
Rejected(r) == IsDone(r) /\ h[r].resp.kind = "json" /\ h[r].resp.http = 400

\* C28: a request rejected with HTTP 400 for a missing required field has
\* issued no vendor call, not even the login, and none of the temp files it
\* staged exists afterwards.
C28_RejectedClean ==
  \A r \in Reqs :
    Rejected(r) =>
      /\ Calls(r) = <<>>
      /\ h[r].token = 0
      /\ h[r].created \cap fs = {}

\* C28 witness: the bridge staged a multipart file before it found
\* ro_number missing; the file is gone and no call was made
C28_Witness ==
  /\ Rejected(1) /\ IsInspection(1) /\ req[1].variant = "bridge"
  /\ h[1].created # {} /\ h[1].created \cap fs = {}
  /\ Calls(1) = <<>>


\* the files that no inspection request staged: the one on disk from the
\* start and those staged by /dvi/upload_image requests
StagedElsewhere ==
  {StagedPath(v) : v \in Variants}
    \cup UNION {h[r].created : r \in {q \in Reqs : req[q].endpoint = "upload_image"}}

\* C29: the cleanup of an inspection request deletes only files the same
\* request staged; a file that a caller-supplied image_paths entry names,
\* staged by /dvi/upload_image or by another request, is never deleted by
\* it, so every such file is still on disk.
C29_OnlyOwnFiles ==
  StagedElsewhere \subseteq fs

====
